---- MODULE Spec2Model ----
(***************************************************************************)
(* Ingestion and aggregation pipeline of the lambo-backend tracker:        *)
(*   - JettonTracker.initial_pool_sync / fetch_pool_transactions (backfill)*)
(*   - SSEMonitor.save_transaction (live tail)                             *)
(*   - tonapi_webhook (webhook writer)                                     *)
(*   - JettonTracker.sync_new_wallets (late-join reconciler)               *)
(*   - JettonTracker.process_pending_transactions and                      *)
(*     TransactionProcessor.process_transaction / update_wallet_volumes    *)
(*                                                                         *)
(* One pool (init_pool.py creates exactly one).  A pool transaction is     *)
(* identified by its hash h in 1..chain and carries lt = h and utime = h.  *)
(* The live tail stores the event id of the trace, EventIdOf(lt), as       *)
(* tx_hash; the webhook and the backfill store the transaction hash.       *)
(* Amounts are integers (nano units); float rounding is not modelled.      *)
(***************************************************************************)
EXTENDS Integers, Sequences, FiniteSets, TLC

\* ---------------------------------------------------------------- bounds
ShortChain == 4     \* length of the short upstream history
LongChain == 106    \* length of the long upstream history
MaxEnv == 2         \* new transactions on chain plus restarts of the tracker process
MaxTail == 2        \* event lines the live tail receives plus webhook requests
MaxRegister == 1    \* wallets registered while the system runs
MaxFaults == 1      \* store failures inside update_wallet_volumes plus failed index writes
MaxPages == 3       \* full pages a paginated upstream history can span
MidChain == 16      \* length of a history with more candidates than one classifier batch
MaxApiCalls == 2    \* requests to /wallet/verify and /wallet/disconnect

\* ------------------------------------------------------ program constants
filter_batch_size == 4
CommitEvery == 50
PageLimit == 1000
batch_size == 10

VARIABLES
    chain,        \* upstream: the pool's transactions are 1..chain
    grown,        \* how many of them appeared after the start
    rows,         \* table transactions (a sequence of records)
    pool_lt,      \* pools.last_processed_lt (0 = NULL)
    bf,           \* locals of initial_pool_sync
    sse,          \* locals of SSEMonitor.save_transaction
    wh,           \* locals of tonapi_webhook
    sseCount, whCount, restarts, registered, storeErrors,
    indexErrors,  \* failed writes to the ordered index (update_leaderboard's except branch)
    wallets,      \* table wallets: address -> record
    leaderboard,  \* redis sorted set: address -> score, NoScore if absent
    tr,           \* locals of the tracker loop
    aggCalls,     \* history: update_wallet_volumes invocations per tx_hash
    dropped,      \* history: tx_hashes for which update_wallet_volumes found no wallet
    hist,         \* history: the interrupted backfill run, whether the tail wrote, and
                  \* the history length the last completed backfill run fetched
    probe,        \* a swap payload and the direction decision taken for it
    rb,           \* a process start-up that finds the index empty and rebuilds it
    life,         \* JettonTracker.is_running and the position of start() and stop()
    mon,          \* SSEMonitor.is_running and the position of SSEMonitor.start()
    fp            \* locals of fetch_pool_transactions, its pages kept as ranges of lts

vars == <<chain, grown, rows, pool_lt, bf, sse, wh, sseCount, whCount, restarts,
          registered, storeErrors, indexErrors, wallets, leaderboard, tr, aggCalls, dropped, hist,
          probe, rb, life, mon, fp>>

ingestVars == <<chain, grown, rows, pool_lt, bf, sse, wh, sseCount, whCount, restarts, hist>>
walletVars == <<registered, storeErrors, indexErrors, wallets, leaderboard, tr, aggCalls,
                dropped>>
auxVars == <<rb, life, mon, fp>>

\* ---------------------------------------------------------------- helpers
Max(a, b) == IF a >= b THEN a ELSE b
Min(a, b) == IF a <= b THEN a ELSE b
MaxOf(S) == CHOOSE x \in S : \A y \in S : y <= x
Range(s) == {s[i] : i \in DOMAIN s}

RECURSIVE SumOver(_, _)
SumOver(S, f) ==
    IF S = {} THEN 0
    ELSE LET x == CHOOSE y \in S : TRUE IN f[x] + SumOver(S \ {x}, f)

NoLt == 0
\* event ids are kept apart from transaction hashes (the history stays below PageLimit)
EventIdBase == PageLimit
EventIdOf(lt) == EventIdBase + lt
LtOfKey(k) == IF k > EventIdBase THEN k - EventIdBase ELSE k

\* ------------------------------------------------------------- data model
Candidate(h, l, t) ==
    [tx_hash |-> h, lt |-> l, timestamp |-> t, pool_id |-> 1, is_processed |-> FALSE,
     user_address |-> "", event_id |-> 0, operation_type |-> "",
     ton_amount |-> 0, lambo_amount |-> 0, ton_usd_price |-> 0]

Hashes(rs) == {rs[i].tx_hash : i \in DOMAIN rs}
HasHash(rs, h) == \E i \in DOMAIN rs : rs[i].tx_hash = h

\* the unique index on transactions.tx_hash: may a row with hash h be inserted?
UniqueTxHashDropped(rs, hs) == TRUE
UniqueTxHash(rs, hs) == \A i \in DOMAIN hs : ~HasHash(rs, hs[i])
                        /\ \A j \in DOMAIN hs : (hs[i] = hs[j]) => (i = j)

RECURSIVE AppendAll(_, _)
AppendAll(rs, hs) ==
    IF hs = <<>> THEN rs
    ELSE AppendAll(Append(rs, Candidate(Head(hs), Head(hs), Head(hs))), Tail(hs))

\* ---------------------------------------------------------------- upstream
\* GET /v2/blockchain/accounts/{pool}/transactions?limit=1000[&before_lt=]
\* newest first; before_lt = 0 stands for "no before_lt parameter"
FetchPage(before_lt, n) ==
    LET top == IF before_lt = NoLt THEN n ELSE Min(n, before_lt - 1)
        len == Min(Max(top, 0), PageLimit)
    IN [i \in 1..len |-> top - i + 1]

\* amounts of a JettonSwap payload: a decimal string is its number; the other
\* values a field can take stand below zero
EmptyStr == -1
Missing == -2
NotDecimal == -3
Nano == 1000000000

\* find_swap_action (76-93): absent keys take the defaults 0 and "0"
FindSwapAction(swap) ==
    [swap EXCEPT !.ton_in = IF @ = Missing THEN 0 ELSE @,
                 !.ton_out = IF @ = Missing THEN 0 ELSE @,
                 !.amount_in = IF @ = Missing THEN 0 ELSE @,
                 !.amount_out = IF @ = Missing THEN 0 ELSE @]

\* process_transaction (183-204) on the result of find_swap_action: the truth
\* tests, float() of the amount string, the division by 10^9
Truthy(amount_str) == amount_str # EmptyStr /\ amount_str # Missing
Direction(sw) ==
    IF sw.ton_in > 0 /\ Truthy(sw.amount_out)
    THEN IF sw.amount_out = NotDecimal
         THEN [kind |-> "error", ton_amount |-> 0, lambo_amount |-> 0]
         ELSE [kind |-> "buy", ton_amount |-> sw.ton_in \div Nano,
               lambo_amount |-> sw.amount_out \div Nano]
    ELSE IF sw.ton_out > 0 /\ Truthy(sw.amount_in)
    THEN IF sw.amount_in = NotDecimal
         THEN [kind |-> "error", ton_amount |-> 0, lambo_amount |-> 0]
         ELSE [kind |-> "sell", ton_amount |-> sw.ton_out \div Nano,
               lambo_amount |-> sw.amount_in \div Nano]
    ELSE [kind |-> "discard", ton_amount |-> 0, lambo_amount |-> 0]

\* GET /v2/events/{id}, by transaction hash or by event id: the event of the
\* pool transaction with that lt.
\* The swaps that appear while the system runs are equal swaps by one user
\* within one second (same amounts, same event timestamp, different events).
UpstreamEvent(key) ==
    LET l == LtOfKey(key)
        swap == [status |-> 200, has_swap |-> TRUE, jetton |-> "LAMBO", event_id |-> EventIdOf(l),
                 timestamp |-> l, ton_in |-> 0, ton_out |-> 0, amount_in |-> EmptyStr,
                 amount_out |-> EmptyStr, user |-> "A2", price |-> 5]
    IN CASE l = 1 -> [swap EXCEPT !.ton_in = 2 * Nano, !.amount_out = Nano, !.user = "A1"]
         [] l = 2 -> [swap EXCEPT !.ton_out = Nano, !.amount_in = 2 * Nano, !.user = "A1"]
         [] l = 3 -> [swap EXCEPT !.status = 404]
         [] l = 4 -> [swap EXCEPT !.has_swap = FALSE]
         [] l \in {LongChain - 51, LongChain - 50} -> [swap EXCEPT !.has_swap = FALSE]
         [] OTHER -> [swap EXCEPT !.ton_in = Nano, !.amount_out = Nano,
                                  !.timestamp = ShortChain + 1]

\* TransactionProcessor.is_lambo_transaction
IsLamboTx(tx_hash) ==
    LET ev == UpstreamEvent(tx_hash) IN
    IF ev.status # 200 THEN FALSE
    ELSE IF ~ev.has_swap THEN FALSE
    ELSE ev.jetton = "LAMBO"

\* JettonTracker.fetch_pool_transactions on a history below one page: the
\* first request carries after_lt in the before_lt position, and a first page
\* below the page limit is returned as it is (279-281). Paginated histories
\* are fetched by FetchFirstPage and FetchBatchOfPages.
FetchPoolTransactions(after_lt, n) == FetchPage(after_lt, n)

\* ----------------------------------- fetch_pool_transactions, page by page
\* A page is kept as the range of lts it holds: top, top - 1, ..., top - len + 1
\* (newest first). The utime of a transaction is its lt.
max_concurrent_requests == 10
MaxConcurrent == 30
MinConcurrent == 5

\* GET .../transactions?limit=1000[&before_lt=] (236-252) as a range
PageOf(before_lt, n) ==
    LET top == IF before_lt = NoLt THEN n ELSE Min(n, before_lt - 1)
    IN [top |-> Max(top, 0), len |-> Min(Max(top, 0), PageLimit)]
\* transactions[-1]["lt"]
LastLt(page) == page.top - page.len + 1

RECURSIVE Copies(_, _)
Copies(page, k) == IF k = 0 THEN <<>> ELSE <<page>> \o Copies(page, k - 1)

\* the transactions of the pages whose lt is at least low
RECURSIVE KeepFrom(_, _)
KeepFrom(pages, low) ==
    IF pages = <<>> THEN <<>>
    ELSE LET p == Head(pages)
             from == Max(LastLt(p), low)
             rest == KeepFrom(Tail(pages), low)
         IN IF from > p.top THEN rest
            ELSE <<[top |-> p.top, len |-> p.top - from + 1]>> \o rest

\* the list comprehension at 369-371: transactions with utime >= start_timestamp
FilterByTimestamp(pages, start_timestamp) == KeepFrom(pages, start_timestamp)

\* the end of the function after a break (361-372)
AfterBreak(f, pages) ==
    [f EXCEPT !.pc = "returned",
              !.pages = IF f.after_lt = NoLt /\ f.start_timestamp # 0
                        THEN FilterByTimestamp(pages, f.start_timestamp)
                        ELSE pages]

FpIdle ==
    [pc |-> "idle", n |-> 0, after_lt |-> NoLt, start_timestamp |-> 0,
     pages |-> <<>>, before_lt |-> NoLt, requests |-> <<>>,
     concurrent |-> max_concurrent_requests, failed |-> FALSE, how |-> "",
     inserted |-> <<>>, checkpoint |-> NoLt]

\* the first request (270-283); it carries after_lt as before_lt
FetchFirstPage ==
    /\ fp.pc = "first"
    /\ \E ok \in BOOLEAN :
         LET first_page == PageOf(fp.after_lt, fp.n)
             asked == [fp EXCEPT !.requests = <<[before_lt |-> fp.after_lt, times |-> 1]>>,
                                 !.failed = ~ok]
         IN fp' = IF ~ok \/ first_page.len = 0
                  THEN [asked EXCEPT !.pc = "returned", !.how = "no transactions"]
                  ELSE IF first_page.len < PageLimit
                  THEN [asked EXCEPT !.pc = "returned", !.pages = <<first_page>>,
                                     !.how = "short first page"]
                  ELSE [asked EXCEPT !.pc = "batch", !.pages = <<first_page>>,
                                     !.before_lt = LastLt(first_page)]
    /\ UNCHANGED <<ingestVars, walletVars, probe, rb, life, mon>>

\* one round of the while loop (291-363): fp.concurrent requests with the same
\* before_lt are gathered; `good` of them succeed (a failed request yields an
\* empty list, 250-252); the number of requests of the next round follows the
\* measured rate (322-329)
FetchBatchOfPages ==
    /\ fp.pc = "batch"
    /\ \E good \in 0..fp.concurrent :
       \E next_concurrent \in {fp.concurrent, Min(fp.concurrent + 3, MaxConcurrent),
                               Max(fp.concurrent - 2, MinConcurrent)} :
         LET page == PageOf(fp.before_lt, fp.n)
             asked == [fp EXCEPT !.requests = Append(@, [before_lt |-> fp.before_lt,
                                                        times |-> fp.concurrent]),
                                 !.concurrent = next_concurrent,
                                 !.failed = @ \/ good < fp.concurrent]
             pages == fp.pages \o Copies(page, good)
         IN fp' = IF good = 0 \/ page.len = 0
                  THEN [AfterBreak(asked, fp.pages) EXCEPT !.how = "empty batch"]
                  ELSE IF page.len < PageLimit
                  THEN [asked EXCEPT !.pc = "returned", !.pages = fp.pages \o <<page>>,
                                     !.how = "short later page"]
                  ELSE IF fp.after_lt = NoLt /\ fp.start_timestamp # 0
                          /\ LastLt(page) <= fp.start_timestamp
                  THEN [AfterBreak(asked, pages) EXCEPT !.how = "epoch reached"]
                  ELSE [asked EXCEPT !.pages = pages, !.before_lt = LastLt(page)]
    /\ UNCHANGED <<ingestVars, walletVars, probe, rb, life, mon>>

\* initial_pool_sync on the fetched list (132-207), range by range: a
\* transaction at or below stop_at_lt is never inserted, there is no test of
\* utime, a hash met a second time is skipped, and the final checkpoint is the
\* highest fetched lt above stop_at_lt when something was added
HasLambo(page) == \E l \in LastLt(page)..page.top : IsLamboTx(l)
SyncFetchedPages ==
    /\ fp.pc = "returned"
    /\ LET above == KeepFrom(fp.pages, fp.after_lt + 1)
           added == \E i \in DOMAIN above : HasLambo(above[i])
       IN fp' = [fp EXCEPT !.pc = "synced",
                           !.inserted = above,
                           !.checkpoint = IF added
                                          THEN MaxOf({above[i].top : i \in DOMAIN above})
                                          ELSE fp.after_lt]
    /\ UNCHANGED <<ingestVars, walletVars, probe, rb, life, mon>>

\* ------------------------------------------------- backfill (initial_pool_sync)
BfIdle ==
    [pc |-> "idle", all_txs |-> <<>>, stop_at_lt |-> 0, added |-> 0, max_added_lt |-> 0,
     batch_idx |-> 0, pending |-> <<>>, fetched |-> FALSE, ok |-> TRUE,
     seen_chain |-> 0]

BfFailed == [bf EXCEPT !.pc = "done", !.ok = FALSE, !.pending = <<>>]

\* the transactions of a batch before the loop breaks at a synced lt (145-147)
RECURSIVE BeforeBreak(_, _)
BeforeBreak(batch, stop) ==
    IF batch = <<>> THEN <<>>
    ELSE IF stop > 0 /\ Head(batch) <= stop THEN <<>>
    ELSE <<Head(batch)>> \o BeforeBreak(Tail(batch), stop)

InSeq(s, x) == \E i \in DOMAIN s : s[i] = x

\* the intermediate checkpoint value (190-191)
IntermediateLt(b) == b.max_added_lt
\* the final checkpoint value (205)
LatestLt(b) == MaxOf({b.all_txs[i] : i \in {j \in DOMAIN b.all_txs : b.all_txs[j] > b.stop_at_lt}})

BackfillStart ==
    /\ bf.pc = "idle"
    /\ tr.pc = "start"
    /\ \E fetch_ok \in BOOLEAN :
         bf' = [BfIdle EXCEPT !.pc = "batch",
                              !.fetched = fetch_ok,
                              !.seen_chain = chain,
                              !.stop_at_lt = pool_lt,
                              !.all_txs = IF fetch_ok THEN FetchPoolTransactions(pool_lt, chain)
                                          ELSE <<>>]
    /\ UNCHANGED <<chain, grown, rows, pool_lt, sse, wh, sseCount, whCount, restarts, hist>>
    /\ UNCHANGED <<walletVars, probe, auxVars>>

\* the batch step without the stop at synced lts (145-147), without the
\* duplicate lookup (150-153), on a table without the unique index
BackfillBatchBlind ==
    /\ bf.pc = "batch"
    /\ bf.batch_idx < Len(bf.all_txs)
    /\ LET batch == SubSeq(bf.all_txs, bf.batch_idx + 1,
                           Min(bf.batch_idx + filter_batch_size, Len(bf.all_txs)))
           lambo == SelectSeq(batch, IsLamboTx)
           pending == bf.pending \o lambo
           added == bf.added + Len(lambo)
           max_added_lt == IF lambo = <<>> THEN bf.max_added_lt
                           ELSE Max(bf.max_added_lt, MaxOf(Range(lambo)))
           next == [bf EXCEPT !.batch_idx = bf.batch_idx + filter_batch_size,
                              !.added = added, !.max_added_lt = max_added_lt]
       IN
       IF added % CommitEvery = 0
       THEN /\ rows' = AppendAll(rows, pending)
            /\ bf' = [next EXCEPT !.pending = <<>>,
                                  !.pc = IF max_added_lt > bf.stop_at_lt THEN "ckpt" ELSE "batch"]
       ELSE /\ bf' = [next EXCEPT !.pending = pending]
            /\ rows' = rows
    /\ UNCHANGED <<chain, grown, pool_lt, sse, wh, sseCount, whCount, restarts, hist>>
    /\ UNCHANGED <<walletVars, probe, auxVars>>

BackfillBatch ==
    /\ bf.pc = "batch"
    /\ bf.batch_idx < Len(bf.all_txs)
    /\ LET batch == SubSeq(bf.all_txs, bf.batch_idx + 1,
                           Min(bf.batch_idx + filter_batch_size, Len(bf.all_txs)))
           seen == BeforeBreak(batch, bf.stop_at_lt)
           check_tasks == SelectSeq(seen, LAMBDA h : ~HasHash(rows, h) /\ ~InSeq(bf.pending, h))
           lambo == SelectSeq(check_tasks, IsLamboTx)
           pending == bf.pending \o lambo
           added == bf.added + Len(lambo)
           max_added_lt == IF lambo = <<>> THEN bf.max_added_lt
                           ELSE Max(bf.max_added_lt, MaxOf(Range(lambo)))
           next == [bf EXCEPT !.batch_idx = bf.batch_idx + filter_batch_size,
                              !.added = added, !.max_added_lt = max_added_lt]
       IN
       IF seen # <<>> /\ ~UniqueTxHash(rows, bf.pending)
       THEN \* autoflush of the pending inserts hits the unique index
            /\ bf' = BfFailed
            /\ rows' = rows
       ELSE IF added % CommitEvery = 0
       THEN IF UniqueTxHash(rows, pending)
            THEN /\ rows' = AppendAll(rows, pending)
                 /\ bf' = [next EXCEPT !.pending = <<>>,
                                       !.pc = IF max_added_lt > bf.stop_at_lt THEN "ckpt" ELSE "batch"]
            ELSE /\ bf' = BfFailed
                 /\ rows' = rows
       ELSE /\ bf' = [next EXCEPT !.pending = pending]
            /\ rows' = rows
    /\ UNCHANGED <<chain, grown, pool_lt, sse, wh, sseCount, whCount, restarts, hist>>
    /\ UNCHANGED <<walletVars, probe, auxVars>>

\* the batch step when the event request of one tracked-asset swap fails for
\* the moment: is_lambo_transaction logs the exception and returns False
\* (transactions.py:122-124), the swap is counted as skipped (171-173)
CheckTasks ==
    LET batch == SubSeq(bf.all_txs, bf.batch_idx + 1,
                        Min(bf.batch_idx + filter_batch_size, Len(bf.all_txs)))
        seen == BeforeBreak(batch, bf.stop_at_lt)
    IN SelectSeq(seen, LAMBDA h : ~HasHash(rows, h) /\ ~InSeq(bf.pending, h))

\* the rows and the run state after the batch in which the check of down failed
BatchCheckDown(down) ==
    LET lambo == SelectSeq(CheckTasks, LAMBDA u : IsLamboTx(u) /\ u # down)
        pending == bf.pending \o lambo
        added == bf.added + Len(lambo)
        max_added_lt == IF lambo = <<>> THEN bf.max_added_lt
                        ELSE Max(bf.max_added_lt, MaxOf(Range(lambo)))
        next == [bf EXCEPT !.batch_idx = bf.batch_idx + filter_batch_size,
                           !.added = added, !.max_added_lt = max_added_lt]
    IN
    IF ~UniqueTxHash(rows, bf.pending)
    THEN [rows |-> rows, bf |-> BfFailed]
    ELSE IF added % CommitEvery = 0
    THEN IF UniqueTxHash(rows, pending)
         THEN [rows |-> AppendAll(rows, pending),
               bf |-> [next EXCEPT !.pending = <<>>,
                                   !.pc = IF max_added_lt > bf.stop_at_lt
                                          THEN "ckpt" ELSE "batch"]]
         ELSE [rows |-> rows, bf |-> BfFailed]
    ELSE [rows |-> rows, bf |-> [next EXCEPT !.pending = pending]]

BackfillBatchCheckDown ==
    /\ bf.pc = "batch"
    /\ bf.batch_idx < Len(bf.all_txs)
    /\ Cardinality(hist.check_failed) < MaxFaults
    /\ \E down \in {t \in Range(CheckTasks) : IsLamboTx(t)} :
         /\ hist' = [hist EXCEPT !.check_failed = hist.check_failed \cup {down},
                                 !.check_run = restarts]
         /\ rows' = BatchCheckDown(down).rows
         /\ bf' = BatchCheckDown(down).bf
    /\ UNCHANGED <<chain, grown, pool_lt, sse, wh, sseCount, whCount, restarts>>
    /\ UNCHANGED <<walletVars, probe, auxVars>>

BackfillCheckpoint ==
    /\ bf.pc = "ckpt"
    /\ pool_lt' = IntermediateLt(bf)
    /\ bf' = [bf EXCEPT !.pc = "batch", !.max_added_lt = 0]
    /\ UNCHANGED <<chain, grown, rows, sse, wh, sseCount, whCount, restarts, hist>>
    /\ UNCHANGED <<walletVars, probe, auxVars>>

BackfillFinish ==
    /\ bf.pc = "batch"
    /\ bf.batch_idx >= Len(bf.all_txs)
    /\ IF UniqueTxHash(rows, bf.pending)
       THEN /\ rows' = AppendAll(rows, bf.pending)
            /\ bf' = [bf EXCEPT !.pending = <<>>,
                                !.pc = IF bf.added > 0 /\ bf.all_txs # <<>> THEN "final" ELSE "done"]
       ELSE /\ bf' = BfFailed
            /\ rows' = rows
    /\ UNCHANGED <<chain, grown, pool_lt, sse, wh, sseCount, whCount, restarts, hist>>
    /\ UNCHANGED <<walletVars, probe, auxVars>>

\* max() of no lt raises ValueError, which the handler at 219-220 logs
BackfillFinal ==
    /\ bf.pc = "final"
    /\ IF \E i \in DOMAIN bf.all_txs : bf.all_txs[i] > bf.stop_at_lt
       THEN /\ pool_lt' = LatestLt(bf)
            /\ bf' = [bf EXCEPT !.pc = "done"]
       ELSE /\ pool_lt' = pool_lt
            /\ bf' = BfFailed
    /\ UNCHANGED <<chain, grown, rows, sse, wh, sseCount, whCount, restarts, hist>>
    /\ UNCHANGED <<walletVars, probe, auxVars>>

\* ------------------------------------------ live tail (SSEMonitor.save_transaction)
SseIdle == [pc |-> "idle", event_id |-> 0, lt |-> 0, timestamp |-> 0]

\* the lts of the event lines and webhook requests that may arrive: the two newest
RecentLts == {l \in {chain - 1, chain} : l >= 1}

\* the checkpoint save_transaction stores for an observed lt (sse.py:95)
SseCheckpoint(previous, observed) == observed

SseReceive ==
    /\ sse.pc = "idle"
    /\ sseCount + whCount < MaxTail
    /\ \E l \in RecentLts :
         sse' = IF HasHash(rows, EventIdOf(l)) THEN SseIdle
                ELSE [pc |-> "checked", event_id |-> EventIdOf(l), lt |-> l, timestamp |-> l]
    /\ sseCount' = sseCount + 1
    /\ UNCHANGED <<chain, grown, rows, pool_lt, bf, wh, whCount, restarts, hist>>
    /\ UNCHANGED <<walletVars, probe, auxVars>>

SseCommit ==
    /\ sse.pc = "checked"
    /\ IF UniqueTxHash(rows, <<sse.event_id>>)
       THEN /\ rows' = Append(rows, Candidate(sse.event_id, sse.lt, sse.timestamp))
            /\ pool_lt' = SseCheckpoint(pool_lt, sse.lt)
            /\ hist' = [hist EXCEPT !.tailWrote = TRUE]
       ELSE UNCHANGED <<rows, pool_lt, hist>>
    /\ sse' = SseIdle
    /\ UNCHANGED <<chain, grown, bf, wh, sseCount, whCount, restarts>>
    /\ UNCHANGED <<walletVars, probe, auxVars>>

\* ------------------------------------------------------ webhook (tonapi_webhook)
WhIdle == [pc |-> "idle", tx_hash |-> 0, lt |-> 0, seen_lt |-> 0]

WebhookReceive ==
    /\ wh.pc = "idle"
    /\ sseCount + whCount < MaxTail
    /\ \E l \in RecentLts :
         wh' = IF HasHash(rows, l) THEN WhIdle
               ELSE [pc |-> "checked", tx_hash |-> l, lt |-> l, seen_lt |-> pool_lt]
    /\ whCount' = whCount + 1
    /\ UNCHANGED <<chain, grown, rows, pool_lt, bf, sse, sseCount, restarts, hist>>
    /\ UNCHANGED <<walletVars, probe, auxVars>>

WebhookInsert ==
    /\ wh.pc = "checked"
    /\ IF UniqueTxHash(rows, <<wh.tx_hash>>)
       THEN /\ rows' = Append(rows, Candidate(wh.tx_hash, wh.lt, wh.lt))
            /\ wh' = [wh EXCEPT !.pc = "inserted"]
            /\ hist' = [hist EXCEPT !.tailWrote = TRUE]
       ELSE /\ rows' = rows
            /\ wh' = WhIdle
            /\ hist' = hist
    /\ UNCHANGED <<chain, grown, pool_lt, bf, sse, sseCount, whCount, restarts>>
    /\ UNCHANGED <<walletVars, probe, auxVars>>

WebhookCheckpoint ==
    /\ wh.pc = "inserted"
    /\ pool_lt' = IF wh.lt > wh.seen_lt THEN wh.lt ELSE pool_lt
    /\ wh' = WhIdle
    /\ UNCHANGED <<chain, grown, rows, bf, sse, sseCount, whCount, restarts, hist>>
    /\ UNCHANGED <<walletVars, probe, auxVars>>

\* --------------------------------------------------------------- environment
NewTx ==
    /\ grown + restarts < MaxEnv
    /\ chain + 1 < PageLimit
    /\ chain' = chain + 1
    /\ grown' = grown + 1
    /\ UNCHANGED <<rows, pool_lt, bf, sse, wh, sseCount, whCount, restarts, hist>>
    /\ UNCHANGED <<walletVars, probe, auxVars>>

TrStart == [pc |-> "start", wallets |-> <<>>, batch |-> <<>>, address |-> ""]

\* history: what a backfill run in progress persists when it is left alone
WouldPersist(b) ==
    {h \in Range(b.all_txs) : (b.stop_at_lt = 0 \/ h > b.stop_at_lt) /\ IsLamboTx(h)}

\* the tracker process is stopped or killed and started again (main)
Restart ==
    /\ grown + restarts < MaxEnv
    /\ restarts' = restarts + 1
    /\ hist' = IF bf.pc = "idle" THEN hist
                ELSE IF bf.pc = "done"
                THEN [hist EXCEPT !.done_chain = IF bf.ok /\ bf.fetched THEN bf.seen_chain
                                                 ELSE 0]
                ELSE [hist EXCEPT !.interrupted = TRUE,
                                  !.want = hist.want \cup WouldPersist(bf),
                                  !.done_chain = 0]
    /\ bf' = BfIdle
    /\ sse' = SseIdle
    /\ tr' = TrStart
    /\ UNCHANGED <<chain, grown, rows, pool_lt, wh, sseCount, whCount, probe, auxVars>>
    /\ UNCHANGED <<registered, storeErrors, indexErrors, wallets, leaderboard, aggCalls, dropped>>

\* ------------------------------------------------------------------ wallets
Addrs == {"A1", "A2"}
NoScore == -1

NoUser == 0
Users == {1, 2}
NewWallet ==
    [exists |-> TRUE, is_active |-> TRUE, user_id |-> 1, sync_status |-> "pending",
     initial_sync_completed |-> FALSE,
     buy_volume_lambo |-> 0, sell_volume_lambo |-> 0, total_volume_lambo |-> 0,
     buy_volume_ton |-> 0, sell_volume_ton |-> 0, total_volume_ton |-> 0,
     buy_volume_usd |-> 0, sell_volume_usd |-> 0, total_volume_usd |-> 0]
NoWallet ==
    [NewWallet EXCEPT !.exists = FALSE, !.is_active = FALSE, !.user_id = NoUser,
                      !.sync_status = ""]

\* a wallet row is inserted with the column defaults of models.Wallet
RegisterWallet ==
    /\ registered < MaxRegister
    /\ \E a \in {"A1"} :
         /\ ~wallets[a].exists
         /\ wallets' = [wallets EXCEPT ![a] = NewWallet]
    /\ registered' = registered + 1
    /\ UNCHANGED <<ingestVars, probe, auxVars>>
    /\ UNCHANGED <<storeErrors, indexErrors, leaderboard, tr, aggCalls, dropped>>

\* Wallet.user_id == user.id, scalar_one_or_none (wallet.py 86-89, 146-149)
WalletsOf(u) == {a \in Addrs : wallets[a].exists /\ wallets[a].user_id = u}

\* POST /wallet/verify by user u for address a, with a valid proof. A new row
\* is built with keywords that are no columns of models.Wallet (102-111), which
\* raises before the commit: nothing of the request is stored.
VerifyWallet ==
    /\ hist.api_calls < MaxApiCalls
    /\ hist' = [hist EXCEPT !.api_calls = hist.api_calls + 1]
    /\ \E u \in Users, a \in Addrs :
         LET taken == wallets[a].exists /\ wallets[a].user_id # NoUser
                      /\ wallets[a].user_id # u
             unlinked == [b \in Addrs |->
                             IF b \in WalletsOf(u) /\ b # a
                             THEN [wallets[b] EXCEPT !.user_id = NoUser, !.is_active = FALSE]
                             ELSE wallets[b]]
         IN /\ Cardinality(WalletsOf(u)) <= 1
            /\ wallets' = IF taken \/ ~wallets[a].exists THEN wallets
                          ELSE [unlinked EXCEPT ![a].user_id = u, ![a].is_active = TRUE]
    /\ UNCHANGED <<chain, grown, rows, pool_lt, bf, sse, wh, sseCount, whCount, restarts>>
    /\ UNCHANGED <<registered, storeErrors, indexErrors, leaderboard, tr, aggCalls, dropped>>
    /\ UNCHANGED <<probe, auxVars>>

\* POST /wallet/disconnect by user u: unlink, commit, remove_wallet (zrem)
DisconnectWallet ==
    /\ hist.api_calls < MaxApiCalls
    /\ hist' = [hist EXCEPT !.api_calls = hist.api_calls + 1]
    /\ \E u \in Users :
         /\ Cardinality(WalletsOf(u)) <= 1
         /\ IF WalletsOf(u) = {}
            THEN UNCHANGED <<wallets, leaderboard>>
            ELSE LET a == CHOOSE b \in Addrs : b \in WalletsOf(u)
                 IN /\ wallets' = [wallets EXCEPT ![a].user_id = NoUser,
                                                  ![a].is_active = FALSE]
                    /\ leaderboard' = [leaderboard EXCEPT ![a] = NoScore]
    /\ UNCHANGED <<chain, grown, rows, pool_lt, bf, sse, wh, sseCount, whCount, restarts>>
    /\ UNCHANGED <<registered, storeErrors, indexErrors, tr, aggCalls, dropped>>
    /\ UNCHANGED <<probe, auxVars>>

\* sums over the classified rows of an address (tracker.py 396-409)
RowsOf(rs, a, op) ==
    {i \in DOMAIN rs : rs[i].is_processed /\ rs[i].user_address = a /\ rs[i].operation_type = op}
SumLambo(rs, a, op) == SumOver(RowsOf(rs, a, op), [i \in DOMAIN rs |-> rs[i].lambo_amount])
SumTon(rs, a, op) == SumOver(RowsOf(rs, a, op), [i \in DOMAIN rs |-> rs[i].ton_amount])
SumUsd(rs, a, op) ==
    SumOver(RowsOf(rs, a, op), [i \in DOMAIN rs |-> rs[i].ton_amount * rs[i].ton_usd_price])

\* ------------------------------------------------------------- tracker loop
\* JettonTracker.start: the loop is entered when initial_pool_sync has returned
\* start(), line 35: initial_pool_sync has returned, is_running is set
TrackerEnterLoop ==
    /\ tr.pc = "start"
    /\ bf.pc = "done"
    /\ tr' = [tr EXCEPT !.pc = "loop"]
    /\ life' = [life EXCEPT !.is_running = TRUE]
    /\ UNCHANGED <<ingestVars, probe, rb, mon, fp>>
    /\ UNCHANGED <<registered, storeErrors, indexErrors, wallets, leaderboard, aggCalls, dropped>>

\* sync_new_wallets: select pending active wallets, limit 5
PendingWallets ==
    LET S == {a \in Addrs : wallets[a].exists /\ wallets[a].sync_status = "pending"
                            /\ wallets[a].is_active}
    IN IF "A1" \in S THEN (IF "A2" \in S THEN <<"A1", "A2">> ELSE <<"A1">>)
       ELSE (IF "A2" \in S THEN <<"A2">> ELSE <<>>)

SyncSelect ==
    /\ tr.pc = "loop"
    /\ life.is_running
    /\ tr' = [tr EXCEPT !.wallets = PendingWallets,
                        !.pc = IF PendingWallets = <<>> THEN "select" ELSE "sync_mark"]
    /\ UNCHANGED <<ingestVars, probe, auxVars>>
    /\ UNCHANGED <<registered, storeErrors, indexErrors, wallets, leaderboard, aggCalls, dropped>>

SyncMark ==
    /\ tr.pc = "sync_mark"
    /\ wallets' = [wallets EXCEPT ![Head(tr.wallets)].sync_status = "syncing"]
    /\ tr' = [tr EXCEPT !.pc = "sync_sum"]
    /\ UNCHANGED <<ingestVars, probe, auxVars>>
    /\ UNCHANGED <<registered, storeErrors, indexErrors, leaderboard, aggCalls, dropped>>

\* sync_new_wallets without the case on operation_type (397-402): every
\* classified row of the address is summed into the buy totals
ReconciledUnsplit(w, rs, a) ==
    [w EXCEPT !.buy_volume_lambo = SumLambo(rs, a, "buy") + SumLambo(rs, a, "sell"),
              !.buy_volume_ton = SumTon(rs, a, "buy") + SumTon(rs, a, "sell"),
              !.buy_volume_usd = SumUsd(rs, a, "buy") + SumUsd(rs, a, "sell"),
              !.sell_volume_lambo = 0,
              !.sell_volume_ton = 0,
              !.sell_volume_usd = 0,
              !.total_volume_lambo = SumLambo(rs, a, "buy") + SumLambo(rs, a, "sell"),
              !.total_volume_ton = SumTon(rs, a, "buy") + SumTon(rs, a, "sell"),
              !.total_volume_usd = SumUsd(rs, a, "buy") + SumUsd(rs, a, "sell"),
              !.sync_status = "synced",
              !.initial_sync_completed = TRUE]

Reconciled(w, rs, a) ==
    [w EXCEPT !.buy_volume_lambo = SumLambo(rs, a, "buy"),
              !.buy_volume_ton = SumTon(rs, a, "buy"),
              !.buy_volume_usd = SumUsd(rs, a, "buy"),
              !.sell_volume_lambo = SumLambo(rs, a, "sell"),
              !.sell_volume_ton = SumTon(rs, a, "sell"),
              !.sell_volume_usd = SumUsd(rs, a, "sell"),
              !.total_volume_lambo = SumLambo(rs, a, "buy") + SumLambo(rs, a, "sell"),
              !.total_volume_ton = SumTon(rs, a, "buy") + SumTon(rs, a, "sell"),
              !.total_volume_usd = SumUsd(rs, a, "buy") + SumUsd(rs, a, "sell"),
              !.sync_status = "synced",
              !.initial_sync_completed = TRUE]

SyncSum ==
    /\ tr.pc = "sync_sum"
    /\ LET a == Head(tr.wallets)
           w == Reconciled(wallets[a], rows, a)
       IN /\ wallets' = [wallets EXCEPT ![a] = w]
          /\ leaderboard' = [leaderboard EXCEPT ![a] = w.total_volume_usd]
    /\ tr' = [tr EXCEPT !.wallets = Tail(tr.wallets),
                        !.pc = IF Tail(tr.wallets) = <<>> THEN "select" ELSE "sync_mark"]
    /\ UNCHANGED <<ingestVars, probe, auxVars>>
    /\ UNCHANGED <<registered, storeErrors, indexErrors, aggCalls, dropped>>

\* sync_new_wallets when the index write fails (update_leaderboard's except branch)
SyncSumIndexDown ==
    /\ tr.pc = "sync_sum"
    /\ storeErrors + indexErrors < MaxFaults
    /\ LET a == Head(tr.wallets)
       IN wallets' = [wallets EXCEPT ![a] = Reconciled(wallets[a], rows, a)]
    /\ indexErrors' = indexErrors + 1
    /\ tr' = [tr EXCEPT !.wallets = Tail(tr.wallets),
                        !.pc = IF Tail(tr.wallets) = <<>> THEN "select" ELSE "sync_mark"]
    /\ UNCHANGED <<ingestVars, probe, auxVars>>
    /\ UNCHANGED <<registered, storeErrors, leaderboard, aggCalls, dropped>>

\* sync_new_wallets when the store fails after the commit of 'syncing' (393):
\* the exception leaves the function and is logged by the loop (46-48)
SyncSumStoreDown ==
    /\ tr.pc = "sync_sum"
    /\ storeErrors + indexErrors < MaxFaults
    /\ storeErrors' = storeErrors + 1
    /\ tr' = [tr EXCEPT !.wallets = <<>>, !.pc = "loop"]
    /\ UNCHANGED <<ingestVars, probe, auxVars>>
    /\ UNCHANGED <<registered, indexErrors, wallets, leaderboard, aggCalls, dropped>>

\* ------------------------------------------- classifier (process_transaction)
RowIndex(rs, h) == CHOOSE i \in DOMAIN rs : rs[i].tx_hash = h
DeleteRow(rs, h) ==
    LET k == RowIndex(rs, h) IN [i \in 1..(Len(rs) - 1) |-> IF i < k THEN rs[i] ELSE rs[i + 1]]

\* process_pending_transactions: unprocessed rows by timestamp ascending, limit batch_size
\* the selection without its is_processed filter (443)
UnprocessedUnfiltered(rs) == DOMAIN rs
Unprocessed(rs) == {i \in DOMAIN rs : ~rs[i].is_processed}
\* the position of row x in ORDER BY timestamp ASC (equal timestamps in row order)
RankByTimestamp(rs, S, x) ==
    Cardinality({y \in S : \/ rs[y].timestamp < rs[x].timestamp
                           \/ (rs[y].timestamp = rs[x].timestamp /\ y <= x)})
ByTimestamp(rs, S, limit) ==
    [k \in 1..Min(limit, Cardinality(S)) |->
        rs[CHOOSE x \in S : RankByTimestamp(rs, S, x) = k].tx_hash]
PendingBatch(rs) == ByTimestamp(rs, Unprocessed(rs), batch_size)

\* the row as process_transaction commits it on promotion (215-240)
PromotedRowUnmarked(row, ev, op, ton_amount, lambo_amount) ==
    [row EXCEPT !.user_address = ev.user, !.event_id = ev.event_id, !.operation_type = op,
                !.ton_amount = ton_amount, !.lambo_amount = lambo_amount,
                !.ton_usd_price = ev.price, !.timestamp = ev.timestamp]
PromotedRow(row, ev, op, ton_amount, lambo_amount) ==
    [row EXCEPT !.user_address = ev.user, !.event_id = ev.event_id, !.operation_type = op,
                !.ton_amount = ton_amount, !.lambo_amount = lambo_amount,
                !.ton_usd_price = ev.price, !.timestamp = ev.timestamp,
                !.is_processed = TRUE]

ExistingEvent(rs, event_id) ==
    {i \in DOMAIN rs : rs[i].event_id = event_id /\ rs[i].is_processed}
ExistingSimilarNone(rs, user, ton_amount, lambo_amount, timestamp) == {}
ExistingSimilar(rs, user, ton_amount, lambo_amount, timestamp) ==
    {i \in DOMAIN rs : /\ rs[i].user_address = user
                       /\ rs[i].ton_amount = ton_amount
                       /\ rs[i].lambo_amount = lambo_amount
                       /\ rs[i].timestamp = timestamp
                       /\ rs[i].is_processed}

\* process_transaction without its two duplicate lookups
ClassifyUnchecked(rs, h) ==
    LET row == rs[RowIndex(rs, h)]
        ev == UpstreamEvent(h)
        d == Direction(FindSwapAction(ev))
        op == d.kind
        ton_amount == d.ton_amount
        lambo_amount == d.lambo_amount
    IN IF ev.status # 200 THEN [outcome |-> "error", row |-> row]
       ELSE IF ~ev.has_swap \/ ev.jetton # "LAMBO" \/ ev.timestamp = 0
            THEN [outcome |-> "delete", row |-> row]
       ELSE IF d.kind = "error" THEN [outcome |-> "error", row |-> row]
       ELSE IF d.kind = "discard" \/ ev.user = "" THEN [outcome |-> "delete", row |-> row]
       ELSE [outcome |-> "promote", row |-> PromotedRow(row, ev, op, ton_amount, lambo_amount)]

\* the outcome of process_transaction for a row whose event is ev:
\* "error" (exception, row kept), "delete", or "promote" with the new row
ClassifyEvent(rs, row, ev) ==
    LET d == Direction(FindSwapAction(ev))
        op == d.kind
        ton_amount == d.ton_amount
        lambo_amount == d.lambo_amount
        err == [outcome |-> "error", row |-> row]
        del == [outcome |-> "delete", row |-> row]
    IN IF ev.status # 200 THEN err
       ELSE IF ~ev.has_swap THEN del
       ELSE IF ev.jetton # "LAMBO" THEN del
       ELSE IF ev.event_id # 0 /\ Cardinality(ExistingEvent(rs, ev.event_id)) > 1 THEN err
       ELSE IF ev.event_id # 0 /\ ExistingEvent(rs, ev.event_id) # {} THEN del
       ELSE IF ev.timestamp = 0 THEN del
       ELSE IF d.kind = "error" THEN err
       ELSE IF d.kind = "discard" THEN del
       ELSE IF ev.user = "" THEN del
       ELSE IF Cardinality(ExistingSimilar(rs, ev.user, ton_amount, lambo_amount, ev.timestamp)) > 1
            THEN err
       ELSE IF ExistingSimilar(rs, ev.user, ton_amount, lambo_amount, ev.timestamp) # {} THEN del
       ELSE [outcome |-> "promote", row |-> PromotedRow(row, ev, op, ton_amount, lambo_amount)]

Classify(rs, h) == ClassifyEvent(rs, rs[RowIndex(rs, h)], UpstreamEvent(h))

ProcSelect ==
    /\ tr.pc = "select"
    /\ tr' = [tr EXCEPT !.batch = PendingBatch(rows),
                        !.pc = IF PendingBatch(rows) = <<>> THEN "loop" ELSE "fetch"]
    /\ UNCHANGED <<ingestVars, probe, auxVars>>
    /\ UNCHANGED <<registered, storeErrors, indexErrors, wallets, leaderboard, aggCalls, dropped>>

\* the position after the current row of the batch is done
AfterRow == [tr EXCEPT !.batch = Tail(tr.batch), !.address = "",
                       !.pc = IF Tail(tr.batch) = <<>> THEN "loop" ELSE "fetch"]

\* process_transaction up to and including its commit at 240
ProcessTransaction ==
    /\ tr.pc = "fetch"
    /\ LET h == Head(tr.batch)
           c == Classify(rows, h)
       IN CASE c.outcome = "error" -> /\ rows' = rows
                                      /\ tr' = AfterRow
            [] c.outcome = "delete" -> /\ rows' = DeleteRow(rows, h)
                                       /\ tr' = AfterRow
            [] OTHER -> /\ rows' = [rows EXCEPT ![RowIndex(rows, h)] = c.row]
                        /\ tr' = [tr EXCEPT !.pc = "agg", !.address = c.row.user_address]
    /\ UNCHANGED <<chain, grown, pool_lt, bf, sse, wh, sseCount, whCount, restarts, hist>>
    /\ UNCHANGED <<registered, storeErrors, indexErrors, wallets, leaderboard, aggCalls, dropped, probe, auxVars>>

\* process_transaction on a row whose event request fails: get_event_details
\* raises, the handler at 254-256 logs and returns False, the row stays
ProcessTransactionGone ==
    /\ tr.pc = "fetch"
    /\ Head(tr.batch) \in hist.gone
    /\ tr' = AfterRow
    /\ UNCHANGED <<ingestVars, probe, auxVars>>
    /\ UNCHANGED <<registered, storeErrors, indexErrors, wallets, leaderboard, aggCalls, dropped>>

ProcessTransactionAvailable ==
    /\ tr.pc = "fetch"
    /\ Head(tr.batch) \notin hist.gone
    /\ ProcessTransaction

\* upstream: the events of the k oldest candidates stop being served
EventsGone ==
    /\ tr.pc = "start"
    /\ bf.pc = "done"
    /\ hist.gone = {}
    /\ \E k \in 1..(batch_size + 1) :
         hist' = [hist EXCEPT !.gone = Range(ByTimestamp(rows, Unprocessed(rows), k))]
    /\ UNCHANGED <<chain, grown, rows, pool_lt, bf, sse, wh, sseCount, whCount, restarts>>
    /\ UNCHANGED <<walletVars, probe, auxVars>>

\* update_wallet_volumes without the recomputation of the totals (278-280)
AggregatedStaleTotals(w, tx) ==
    LET usd_amount == tx.ton_amount * tx.ton_usd_price IN
    IF tx.operation_type = "buy"
    THEN [w EXCEPT !.buy_volume_lambo = @ + tx.lambo_amount,
                   !.buy_volume_ton = @ + tx.ton_amount,
                   !.buy_volume_usd = @ + usd_amount]
    ELSE [w EXCEPT !.sell_volume_lambo = @ + tx.lambo_amount,
                   !.sell_volume_ton = @ + tx.ton_amount,
                   !.sell_volume_usd = @ + usd_amount]

\* update_wallet_volumes without the test of operation_type at 269: every row
\* is added to the buy totals
AggregatedAsBuy(w, tx) ==
    LET usd_amount == tx.ton_amount * tx.ton_usd_price
        v == [w EXCEPT !.buy_volume_lambo = @ + tx.lambo_amount,
                       !.buy_volume_ton = @ + tx.ton_amount,
                       !.buy_volume_usd = @ + usd_amount]
    IN [v EXCEPT !.total_volume_lambo = v.buy_volume_lambo + v.sell_volume_lambo,
                 !.total_volume_ton = v.buy_volume_ton + v.sell_volume_ton,
                 !.total_volume_usd = v.buy_volume_usd + v.sell_volume_usd]

\* TransactionProcessor.update_wallet_volumes
Aggregated(w, tx) ==
    LET usd_amount == tx.ton_amount * tx.ton_usd_price
        v == IF tx.operation_type = "buy"
             THEN [w EXCEPT !.buy_volume_lambo = @ + tx.lambo_amount,
                            !.buy_volume_ton = @ + tx.ton_amount,
                            !.buy_volume_usd = @ + usd_amount]
             ELSE [w EXCEPT !.sell_volume_lambo = @ + tx.lambo_amount,
                            !.sell_volume_ton = @ + tx.ton_amount,
                            !.sell_volume_usd = @ + usd_amount]
    IN [v EXCEPT !.total_volume_lambo = v.buy_volume_lambo + v.sell_volume_lambo,
                 !.total_volume_ton = v.buy_volume_ton + v.sell_volume_ton,
                 !.total_volume_usd = v.buy_volume_usd + v.sell_volume_usd]

Called(calls, h) == IF h \in DOMAIN calls THEN [calls EXCEPT ![h] = @ + 1] ELSE calls @@ (h :> 1)

\* update_wallet_volumes without the early return at 264-265: a missing wallet
\* record is created and receives the row
UpdateWalletVolumesCreates ==
    /\ tr.pc = "agg"
    /\ LET h == Head(tr.batch)
           tx == rows[RowIndex(rows, h)]
           a == tr.address
           w == IF wallets[a].exists THEN wallets[a] ELSE NewWallet
       IN /\ a \in Addrs
          /\ aggCalls' = Called(aggCalls, h)
          /\ wallets' = [wallets EXCEPT ![a] = Aggregated(w, tx)]
          /\ leaderboard' = [leaderboard EXCEPT ![a] = Aggregated(w, tx).total_volume_usd]
          /\ dropped' = IF wallets[a].exists THEN dropped ELSE dropped \cup {h}
    /\ tr' = AfterRow
    /\ UNCHANGED <<ingestVars, probe, auxVars>>
    /\ UNCHANGED <<registered, storeErrors, indexErrors>>

UpdateWalletVolumes ==
    /\ tr.pc = "agg"
    /\ LET h == Head(tr.batch)
           tx == rows[RowIndex(rows, h)]
           a == tr.address
       IN /\ aggCalls' = Called(aggCalls, h)
          /\ IF a \in Addrs /\ wallets[a].exists
             THEN /\ wallets' = [wallets EXCEPT ![a] = Aggregated(wallets[a], tx)]
                  /\ leaderboard' = [leaderboard EXCEPT ![a] = Aggregated(wallets[a], tx).total_volume_usd]
                  /\ dropped' = dropped
             ELSE /\ UNCHANGED <<wallets, leaderboard>>
                  /\ dropped' = dropped \cup {h}
    /\ tr' = AfterRow
    /\ UNCHANGED <<ingestVars, probe, auxVars>>
    /\ UNCHANGED <<registered, storeErrors, indexErrors>>

\* update_wallet_volumes when the index write fails: update_leaderboard logs
\* the error and returns (leaderboard_service.py 19-20)
UpdateWalletVolumesIndexDown ==
    /\ tr.pc = "agg"
    /\ storeErrors + indexErrors < MaxFaults
    /\ tr.address \in Addrs /\ wallets[tr.address].exists
    /\ LET h == Head(tr.batch)
           tx == rows[RowIndex(rows, h)]
           a == tr.address
       IN /\ aggCalls' = Called(aggCalls, h)
          /\ wallets' = [wallets EXCEPT ![a] = Aggregated(wallets[a], tx)]
    /\ indexErrors' = indexErrors + 1
    /\ dropped' = dropped
    /\ tr' = AfterRow
    /\ UNCHANGED <<ingestVars, probe, auxVars>>
    /\ UNCHANGED <<registered, storeErrors, leaderboard>>

\* the store fails inside update_wallet_volumes: the exception is caught at 254
UpdateWalletVolumesFails ==
    /\ tr.pc = "agg"
    /\ storeErrors + indexErrors < MaxFaults
    /\ storeErrors' = storeErrors + 1
    /\ aggCalls' = Called(aggCalls, Head(tr.batch))
    /\ dropped' = dropped
    /\ tr' = AfterRow
    /\ UNCHANGED <<ingestVars, probe, auxVars>>
    /\ UNCHANGED <<registered, indexErrors, wallets, leaderboard>>

\* ------------------------------------- process_transaction on any swap payload
ProbeIdle ==
    [pc |-> "idle", ev |-> UpstreamEvent(1),
     out |-> [outcome |-> "", row |-> Candidate(0, 0, 0)],
     again |-> [outcome |-> "", row |-> Candidate(0, 0, 0)]]

TonValues == {Missing, 0, Nano}
AmountValues == {Missing, EmptyStr, NotDecimal, 0, Nano}
\* an event that passes the checks before the direction decision (137-178)
Payloads ==
    {[UpstreamEvent(1) EXCEPT !.ton_in = ti, !.ton_out = to, !.amount_in = ai,
                              !.amount_out = ao, !.user = u, !.price = p] :
        ti \in TonValues, to \in TonValues, ai \in AmountValues, ao \in AmountValues,
        u \in {"", "A1"}, p \in {0, 5}}

\* process_transaction is called on a candidate row, alone in the store
ProbeClassify ==
    /\ probe.pc = "input"
    /\ probe' = [probe EXCEPT !.pc = "done",
                              !.out = ClassifyEvent(<<Candidate(1, 1, 1)>>, Candidate(1, 1, 1), probe.ev)]
    /\ UNCHANGED <<ingestVars, walletVars, auxVars>>

\* process_transaction is called a second time on the same row object, the
\* store being as the first call left it. The function has no test of
\* tx.is_processed: on a promoted row it runs the same lookups, which now find
\* the row itself. On a deleted row it reaches the same db.delete(tx), which
\* raises for an object that is no longer persistent (caught at 244-246).
ProbeClassifyAgain ==
    /\ probe.pc = "done"
    /\ probe' = [probe EXCEPT
           !.pc = "again",
           !.again = CASE probe.out.outcome = "promote" ->
                            ClassifyEvent(<<probe.out.row>>, probe.out.row, probe.ev)
                       [] probe.out.outcome = "delete" ->
                            [outcome |-> "error", row |-> probe.out.row]
                       [] OTHER ->
                            ClassifyEvent(<<Candidate(1, 1, 1)>>, Candidate(1, 1, 1), probe.ev)]
    /\ UNCHANGED <<ingestVars, walletVars, auxVars>>

NextClassify ==
    \/ ProbeClassify
    \/ ProbeClassifyAgain

\* ------------------------------------------ index rebuild at process start-up
\* get_total_wallets: zcard of the sorted set
ZCard(lb) == Cardinality({a \in Addrs : lb[a] # NoScore})
EmptyIndex == [a \in Addrs |-> NoScore]
NoSeen == -1
RbIdle == [pc |-> "idle", before |-> EmptyIndex, seen |-> NoSeen]

\* the wallets rebuild_leaderboard_from_db selects (79-80); every wallet row
\* of the model was registered by a user
RebuildSet == {a \in Addrs : wallets[a].exists /\ wallets[a].is_active}

\* ensure_leaderboard_ready / startup_event: the rebuild is called when the
\* index is found empty
StartupCheck ==
    /\ rb.pc = "idle"
    /\ rb' = [rb EXCEPT !.pc = IF ZCard(leaderboard) = 0 THEN "rebuild" ELSE "done"]
    /\ UNCHANGED <<ingestVars, walletVars, probe, life, mon, fp>>

\* rebuild_leaderboard_from_db, line 75: the key is deleted
RebuildDelete ==
    /\ rb.pc = "rebuild"
    /\ rb' = [rb EXCEPT !.pc = "deleted", !.before = leaderboard]
    /\ leaderboard' = EmptyIndex
    /\ UNCHANGED <<ingestVars, probe, life, mon, fp>>
    /\ UNCHANGED <<registered, storeErrors, indexErrors, wallets, tr, aggCalls, dropped>>

\* rebuild_leaderboard_from_db, lines 78-100: Wallet.total_volume (81) is not
\* an attribute of models.Wallet, the AttributeError is caught at 98 and the
\* function returns with the index as the delete left it
RebuildFails ==
    /\ rb.pc = "deleted"
    /\ rb' = [rb EXCEPT !.pc = "done"]
    /\ UNCHANGED <<ingestVars, walletVars, probe, life, mon, fp>>

\* a reader request (get_total_wallets) served by another process while the
\* rebuild is between its delete and its return
GetTotalWallets ==
    /\ rb.pc = "deleted"
    /\ rb.seen = NoSeen
    /\ rb' = [rb EXCEPT !.seen = ZCard(leaderboard)]
    /\ UNCHANGED <<ingestVars, walletVars, probe, life, mon, fp>>

\* ------------------------------------------------- tracker and monitor life
\* JettonTracker.__init__: is_running False; stop_called is history
LifeIdle == [is_running |-> FALSE, stop_called |-> FALSE]
\* no SSEMonitor object yet; stop_called is history
MonIdle == [pc |-> "none", is_running |-> FALSE, stop_called |-> FALSE, status |-> ""]

\* start(), line 37: the loop test finds is_running False and start() returns
TrackerReturn ==
    /\ tr.pc = "loop"
    /\ ~life.is_running
    /\ tr' = [tr EXCEPT !.pc = "returned"]
    /\ UNCHANGED <<ingestVars, probe, auxVars>>
    /\ UNCHANGED <<registered, storeErrors, indexErrors, wallets, leaderboard, aggCalls, dropped>>

\* JettonTracker.stop(), called once by another task while start() is running:
\* the flag is cleared and stop() is called on every monitor of sse_monitors
TrackerStop ==
    /\ ~life.stop_called
    /\ tr.pc # "returned"
    /\ life' = [is_running |-> FALSE, stop_called |-> TRUE]
    /\ mon' = IF mon.pc = "none" THEN mon
              ELSE [mon EXCEPT !.is_running = FALSE, !.stop_called = TRUE]
    /\ UNCHANGED <<ingestVars, walletVars, probe, rb, fp>>

\* start_sse_monitors: the monitor is appended to sse_monitors and its task is
\* created; the task has not run yet
StartSseMonitors ==
    /\ tr.pc = "start"
    /\ bf.pc = "idle"
    /\ mon.pc = "none"
    /\ mon' = [mon EXCEPT !.pc = "created"]
    /\ UNCHANGED <<ingestVars, walletVars, probe, rb, life, fp>>

\* SSEMonitor.start(), line 23: the task runs its first step
MonStart ==
    /\ mon.pc = "created"
    /\ mon' = [mon EXCEPT !.pc = "top", !.is_running = TRUE]
    /\ UNCHANGED <<ingestVars, walletVars, probe, rb, life, fp>>

\* line 32: the loop test; a false flag ends start()
MonLoopTest ==
    /\ mon.pc = "top"
    /\ mon' = [mon EXCEPT !.pc = IF mon.is_running THEN "connecting" ELSE "stopped"]
    /\ UNCHANGED <<ingestVars, walletVars, probe, rb, life, fp>>

\* lines 34-41 and 55-57: the answer to the stream request
StreamAnswers == {"200", "503", "error"}
MonConnect ==
    /\ mon.pc = "connecting"
    /\ \E answer \in StreamAnswers :
         mon' = [mon EXCEPT !.status = answer,
                            !.pc = IF answer = "200" THEN "connected" ELSE "sleep"]
    /\ UNCHANGED <<ingestVars, walletVars, probe, rb, life, fp>>

\* asyncio.sleep(10) at 38 or 57 is over: back to the loop test
MonSleepDone ==
    /\ mon.pc = "sleep"
    /\ mon' = [mon EXCEPT !.pc = "top"]
    /\ UNCHANGED <<ingestVars, walletVars, probe, rb, life, fp>>

\* aiter_lines raises between two lines (55-57): the stream is closed by the
\* context managers and the monitor sleeps
MonReadError ==
    /\ mon.pc = "connected"
    /\ sse.pc = "idle"
    /\ mon' = [mon EXCEPT !.pc = "sleep", !.status = "error"]
    /\ UNCHANGED <<ingestVars, walletVars, probe, rb, life, fp>>

\* the server ends the stream: the async for is over, back to the loop test
MonStreamEnd ==
    /\ mon.pc = "connected"
    /\ sse.pc = "idle"
    /\ mon' = [mon EXCEPT !.pc = "top"]
    /\ UNCHANGED <<ingestVars, walletVars, probe, rb, life, fp>>

\* ------------------------------------------------------------ specifications
InitStore ==
    /\ grown = 0
    /\ rows = <<>>
    /\ pool_lt = NoLt
    /\ bf = BfIdle
    /\ sse = SseIdle
    /\ wh = WhIdle
    /\ restarts = 0
    /\ registered = 0
    /\ storeErrors = 0
    /\ indexErrors = 0
    \* A2 registered through the API before the worker starts (column defaults,
    \* sync_status pending, nothing in the index yet); A1 registers later
    /\ wallets = [a \in Addrs |-> IF a = "A2" THEN [NewWallet EXCEPT !.user_id = 2]
                                   ELSE NoWallet]
    /\ leaderboard = [a \in Addrs |-> NoScore]
    /\ tr = TrStart
    /\ aggCalls = <<>>
    /\ dropped = {}
    /\ hist = [interrupted |-> FALSE, want |-> {}, tailWrote |-> FALSE, done_chain |-> 0,
               check_failed |-> {}, check_run |-> 0, gone |-> {}, api_calls |-> 0]
    /\ rb = RbIdle
    /\ life = LifeIdle
    /\ mon = MonIdle

\* the whole tracker process over the short history
Init ==
    /\ chain = ShortChain
    /\ sseCount = 0
    /\ whCount = 0
    /\ probe = ProbeIdle
    /\ InitStore
    /\ fp = FpIdle

Backfill ==
    \/ BackfillStart
    \/ BackfillBatch
    \/ BackfillCheckpoint
    \/ BackfillFinish
    \/ BackfillFinal

LiveTail == SseReceive \/ SseCommit
Webhook == WebhookReceive \/ WebhookInsert \/ WebhookCheckpoint

TrackerLoop ==
    \/ TrackerEnterLoop
    \/ SyncSelect
    \/ SyncMark
    \/ SyncSum
    \/ ProcSelect
    \/ ProcessTransaction
    \/ UpdateWalletVolumes

\* the tracker process: backfill, then the loop, with the live tail beside it.
\* Over the short history the backfill never reaches an intermediate checkpoint.
Next ==
    \/ BackfillStart
    \/ BackfillBatch
    \/ BackfillFinish
    \/ BackfillFinal
    \/ LiveTail
    \/ TrackerLoop
    \/ UpdateWalletVolumesFails
    \/ UpdateWalletVolumesIndexDown
    \/ SyncSumIndexDown
    \/ RegisterWallet
    \/ NewTx

Spec == Init /\ [][Next]_vars

\* the tracker process with the API's webhook handler beside it
NextWithWebhook ==
    \/ BackfillStart
    \/ BackfillBatch
    \/ BackfillFinish
    \/ BackfillFinal
    \/ LiveTail
    \/ Webhook
    \/ TrackerLoop
    \/ RegisterWallet

SpecWithWebhook == Init /\ [][NextWithWebhook]_vars

\* an event line is read from the open stream and handed to save_transaction
\* (43-49); the loop over the lines never reads is_running
MonLine ==
    /\ mon.pc = "connected"
    /\ LiveTail

\* initial_pool_sync is awaited after start_sse_monitors
InitialPoolSync ==
    /\ mon.pc # "none"
    /\ \/ BackfillStart
       \/ BackfillBatch
       \/ BackfillFinish
       \/ BackfillFinal

\* the steps of start() itself
TrackerSteps ==
    \/ StartSseMonitors
    \/ InitialPoolSync
    \/ TrackerLoop
    \/ TrackerReturn

\* the steps of SSEMonitor.start() that need no event from outside
MonitorSteps ==
    \/ MonStart
    \/ MonLoopTest
    \/ MonConnect
    \/ MonSleepDone

\* the tracker with its monitor task, and a caller of stop()
NextLife ==
    \/ TrackerSteps
    \/ MonitorSteps
    \/ MonLine
    \/ MonReadError
    \/ MonStreamEnd
    \/ TrackerStop

SpecLife == Init /\ [][NextLife]_vars

\* the tasks of the event loop keep being scheduled; lines, read errors and
\* the call of stop() come from outside and need not happen
FairLife == SpecLife /\ WF_vars(TrackerSteps) /\ WF_vars(MonitorSteps)

\* the ingestion side alone (no tracker loop), over the short and the long history;
\* the long history is crawled without concurrent arrivals
InitIngest ==
    /\ chain \in {ShortChain, LongChain}
    /\ sseCount = (IF chain = LongChain THEN MaxTail ELSE 0)
    /\ whCount = 0
    /\ probe = ProbeIdle
    /\ InitStore
    /\ fp = FpIdle

NextIngest ==
    \/ Backfill
    \/ LiveTail
    \/ Webhook
    \/ NewTx
    \/ Restart

SpecIngest == InitIngest /\ [][NextIngest]_vars

\* the classifier over more candidates than one batch, some of them with
\* events that upstream no longer serves
InitBlocked ==
    /\ chain = MidChain
    /\ sseCount = 0
    /\ whCount = 0
    /\ probe = ProbeIdle
    /\ InitStore
    /\ fp = FpIdle

NextBlocked ==
    \/ BackfillStart
    \/ BackfillBatch
    \/ BackfillFinish
    \/ BackfillFinal
    \/ EventsGone
    \/ TrackerEnterLoop
    \/ SyncSelect
    \/ SyncMark
    \/ SyncSum
    \/ ProcSelect
    \/ ProcessTransactionAvailable
    \/ ProcessTransactionGone
    \/ UpdateWalletVolumes

TrackerBlocked ==
    \/ BackfillStart
    \/ BackfillBatch
    \/ BackfillFinish
    \/ BackfillFinal
    \/ TrackerEnterLoop
    \/ SyncSelect
    \/ SyncMark
    \/ SyncSum
    \/ ProcSelect
    \/ ProcessTransactionAvailable
    \/ ProcessTransactionGone
    \/ UpdateWalletVolumes

SpecBlocked == InitBlocked /\ [][NextBlocked]_vars
FairBlocked == SpecBlocked /\ WF_vars(TrackerBlocked)

\* the tracker with the wallet routes of the API beside it
NextLink ==
    \/ BackfillStart
    \/ BackfillBatch
    \/ BackfillFinish
    \/ BackfillFinal
    \/ TrackerLoop
    \/ RegisterWallet
    \/ VerifyWallet
    \/ DisconnectWallet

SpecLink == Init /\ [][NextLink]_vars

\* the backfill with a transient failure of the tracked-asset check, and restarts
NextCheckDown ==
    \/ Backfill
    \/ BackfillBatchCheckDown
    \/ Restart

SpecCheckDown == InitIngest /\ [][NextCheckDown]_vars

\* process_transaction alone, over every swap payload
InitClassify ==
    /\ chain = ShortChain
    /\ sseCount = 0
    /\ whCount = 0
    /\ InitStore
    /\ fp = FpIdle
    /\ probe \in {[ProbeIdle EXCEPT !.pc = "input", !.ev = e] : e \in Payloads}

SpecClassify == InitClassify /\ [][NextClassify]_vars

\* one backfill run over a paginated history: the history lengths lie around
\* the page boundaries, the checkpoint is absent (first run, with START_DATE
\* as start_timestamp) or one of the lts at a boundary
Histories == {p * PageLimit + d : p \in 0..(MaxPages - 1), d \in {0, 1, PageLimit - 1}}
StartDates == {1, PageLimit \div 2, PageLimit + 1}
FetchInputs ==
    {[FpIdle EXCEPT !.pc = "first", !.n = n, !.start_timestamp = t] :
        n \in Histories, t \in StartDates}
    \cup
    {[FpIdle EXCEPT !.pc = "first", !.n = x[1], !.after_lt = x[2], !.checkpoint = x[2]] :
        x \in {y \in Histories \X Histories : 0 < y[2] /\ y[2] <= y[1]}}

InitFetch ==
    /\ chain = ShortChain
    /\ sseCount = 0
    /\ whCount = 0
    /\ probe = ProbeIdle
    /\ InitStore
    /\ fp \in FetchInputs

NextFetch ==
    \/ FetchFirstPage
    \/ FetchBatchOfPages
    \/ SyncFetchedPages

SpecFetch == InitFetch /\ [][NextFetch]_vars

\* the awaited requests are answered and the coroutine keeps being scheduled
FairFetch == SpecFetch /\ WF_vars(NextFetch)

\* the tracker process over the short history next to a second process (the
\* API) that starts up, with readers of the index
NextIndex ==
    \/ BackfillStart
    \/ BackfillBatch
    \/ BackfillFinish
    \/ BackfillFinal
    \/ TrackerLoop
    \/ RegisterWallet
    \/ StartupCheck
    \/ RebuildDelete
    \/ RebuildFails
    \/ GetTotalWallets

SpecIndex == Init /\ [][NextIndex]_vars

\* the tracker's own tasks keep running: start() awaits the backfill and then loops
TrackerProcess ==
    \/ BackfillStart
    \/ BackfillBatch
    \/ BackfillFinish
    \/ BackfillFinal
    \/ TrackerLoop

FairSpec == Init /\ [][Next]_vars /\ WF_vars(TrackerProcess)

\* the tracker loop with a store failure inside sync_new_wallets and restarts
NextSync ==
    \/ BackfillStart
    \/ BackfillBatch
    \/ BackfillFinish
    \/ BackfillFinal
    \/ TrackerLoop
    \/ SyncSumStoreDown
    \/ RegisterWallet
    \/ Restart

SpecSync == Init /\ [][NextSync]_vars
FairSync == SpecSync /\ WF_vars(TrackerProcess)

\* ================================================================== claims
CheckpointWriteByBackfill ==
    /\ bf.pc \in {"ckpt", "final"}
    /\ bf'.pc \notin {bf.pc, "idle"}
SseSaved ==
    /\ sse.pc = "checked"
    /\ sse'.pc = "idle"
    /\ restarts' = restarts
SseSkipped ==
    /\ sseCount' = sseCount + 1
    /\ HasHash(rows, sse'.event_id) \/ sse'.pc = "idle"

\* C1: the numeric value of the pool's last_processed_lt never decreases, whatever
\* backfill, live tail and webhook do and however they interleave.
C1_WatermarkNeverDecreases == [][pool_lt' >= pool_lt]_vars

VolumesMatch(a) ==
    /\ wallets[a].buy_volume_lambo = SumLambo(rows, a, "buy")
    /\ wallets[a].buy_volume_ton = SumTon(rows, a, "buy")
    /\ wallets[a].buy_volume_usd = SumUsd(rows, a, "buy")
    /\ wallets[a].sell_volume_lambo = SumLambo(rows, a, "sell")
    /\ wallets[a].sell_volume_ton = SumTon(rows, a, "sell")
    /\ wallets[a].sell_volume_usd = SumUsd(rows, a, "sell")
    /\ wallets[a].total_volume_lambo = SumLambo(rows, a, "buy") + SumLambo(rows, a, "sell")
    /\ wallets[a].total_volume_ton = SumTon(rows, a, "buy") + SumTon(rows, a, "sell")
    /\ wallets[a].total_volume_usd = SumUsd(rows, a, "buy") + SumUsd(rows, a, "sell")

Reconciled_(a) == wallets[a].exists /\ wallets[a].sync_status = "synced"

\* C2: whenever no classifier or reconciler operation is in progress, the buy, sell
\* and total volumes of an address, in each unit, equal the sums over its classified
\* rows split by operation_type.  Stated for the addresses whose reconciliation has
\* completed, where a registration that still waits for its first sync plays no part.
C2_TotalsEqualSumsWhenIdle ==
    tr.pc \in {"start", "loop"} => \A a \in Addrs : Reconciled_(a) => VolumesMatch(a)

\* C3: promotion of a row and the aggregator update for it are one atomic unit: in
\* no reachable state is a row classified for a registered address while the
\* address's totals miss it, and no row is counted twice.  Stated for the addresses
\* whose reconciliation has completed.
C3_PromotionAndAggregationAtomic ==
    \A a \in Addrs : Reconciled_(a) =>
        /\ wallets[a].buy_volume_usd = SumUsd(rows, a, "buy")
        /\ wallets[a].sell_volume_usd = SumUsd(rows, a, "sell")
        /\ wallets[a].buy_volume_ton = SumTon(rows, a, "buy")
        /\ wallets[a].sell_volume_ton = SumTon(rows, a, "sell")

\* C4: the store holds at most one row per tx_hash, under every interleaving of
\* backfill, live-tail and webhook inserts.
C4_OneRowPerTxHash ==
    \A i, j \in DOMAIN rows : (rows[i].tx_hash = rows[j].tx_hash) => (i = j)

\* a webhook request passed its existence check and the hash was committed by
\* another writer before the request's own insert
C4_Witness == wh.pc = "checked" /\ HasHash(rows, wh.tx_hash)

\* C5: a backfill run in resume mode with checkpoint L that runs to completion
\* persists every tracked-asset transaction of the upstream history with lt > L
\* that is not stored yet, and none with lt <= L.
C5_ResumePersistsAboveCheckpoint ==
    (bf.pc # "idle" /\ bf.stop_at_lt > 0) =>
        /\ \A h \in Range(bf.pending) : h > bf.stop_at_lt
        /\ (bf.pc = "done" /\ bf.ok /\ bf.fetched) =>
               \A h \in 1..bf.seen_chain :
                   (h > bf.stop_at_lt /\ IsLamboTx(h)) => HasHash(rows, h)

\* C6: after a backfill run was interrupted and backfill was run again to
\* completion, the store holds every transaction the interrupted run would have
\* persisted.  Stated for runs beside which neither live tail nor webhook wrote.
C6_InterruptedBackfillResumes ==
    (hist.interrupted /\ ~hist.tailWrote /\ bf.pc = "done" /\ bf.ok /\ bf.fetched) =>
        hist.want \subseteq Hashes(rows)

\* C7: a checkpoint write of the backfill (computed from the pool row read at the
\* start of the run) never lowers the watermark the live tail has set meanwhile.
\* (The live tail's own writes are the subject of C8.)
C7_BackfillKeepsTailWatermark ==
    [][CheckpointWriteByBackfill => pool_lt' >= pool_lt]_vars

\* C8: save_transaction for an event id not stored yet persists exactly one
\* candidate row and leaves the checkpoint at max(previous, observed lt); for an
\* event id already stored it changes neither rows nor checkpoint.
C8_SaveTransaction ==
    [][/\ (SseSaved /\ ~HasHash(rows, sse.event_id)) =>
              /\ rows' = Append(rows, Candidate(sse.event_id, sse.lt, sse.timestamp))
              /\ pool_lt' = Max(pool_lt, sse.lt)
       /\ (SseSkipped /\ sse'.pc = "idle") => (rows' = rows /\ pool_lt' = pool_lt)]_vars

TxKeys ==
    (1..(ShortChain + MaxEnv)) \cup {EventIdOf(l) : l \in 1..(ShortChain + MaxEnv)}
IsCandidate(k) == \E i \in DOMAIN rows : rows[i].tx_hash = k /\ ~rows[i].is_processed
StaysClassified ==
    \A i \in DOMAIN rows : rows[i].is_processed =>
        \E j \in DOMAIN rows' : rows'[j] = rows[i]

\* C9: every candidate row ends promoted or deleted, never both, and while the
\* tracker loop runs no candidate stays unprocessed forever.
C9_EveryCandidateTerminates ==
    /\ [][StaysClassified]_vars
    /\ \A k \in TxKeys : IsCandidate(k) ~> ~IsCandidate(k)

\* C10: update_wallet_volumes is invoked at most once per tx_hash over the whole
\* run, across batches and also when process_transaction raised for some rows.
C10_AggregatedAtMostOnce == \A h \in DOMAIN aggCalls : aggCalls[h] <= 1

\* a row was aggregated, a store failure was raised in some batch, and a later
\* batch is being classified
C10_Witness ==
    /\ tr.pc = "fetch"
    /\ storeErrors > 0
    /\ \E h \in DOMAIN aggCalls : aggCalls[h] = 1 /\ h \notin Range(tr.batch)

EventClassifiedOnce ==
    \A i, j \in DOMAIN rows :
        (/\ rows[i].is_processed /\ rows[j].is_processed
         /\ rows[i].event_id # 0 /\ rows[i].event_id = rows[j].event_id) => (i = j)
DuplicateEventDeleted ==
    /\ tr.pc = "fetch"
    /\ Len(rows') < Len(rows)
    /\ ExistingEvent(rows, UpstreamEvent(Head(tr.batch)).event_id) # {}

\* C11: at most one classified row exists per non-null event_id, also when one
\* on-chain event was stored under two tx_hash keys (transaction hash by the
\* backfill, event id by the live tail); deleting the later candidate changes no
\* wallet totals and no index score.
C11_OneClassifiedRowPerEvent ==
    /\ []EventClassifiedOnce
    /\ [][DuplicateEventDeleted => (wallets' = wallets /\ leaderboard' = leaderboard)]_vars

\* the live tail's row of an event is classified, and the backfill's row of the
\* same event, which a completed first run had inserted, is gone again
C11_Witness ==
    \E l \in 1..chain :
        /\ \E i \in DOMAIN rows : rows[i].tx_hash = EventIdOf(l) /\ rows[i].is_processed
        /\ ~HasHash(rows, l)
        /\ bf.pc = "done" /\ bf.ok /\ bf.fetched
        /\ InSeq(bf.all_txs, l) /\ bf.stop_at_lt < l /\ IsLamboTx(l)

SwapTuple(r) == <<r.user_address, r.ton_amount, r.lambo_amount, r.timestamp>>

\* C12: in every reachable state at most one classified row exists for each tuple
\* (user_address, ton_amount, lambo_amount, timestamp).
C12_OneClassifiedRowPerTuple ==
    \A i, j \in DOMAIN rows :
        (rows[i].is_processed /\ rows[j].is_processed /\ SwapTuple(rows[i]) = SwapTuple(rows[j]))
            => (i = j)

\* two different events carry the same tuple; the row of one is classified and the
\* row of the other, which a completed first backfill run had inserted, is gone
C12_Witness ==
    \E l, m \in 1..chain :
        /\ l # m
        /\ \E i \in DOMAIN rows : rows[i].is_processed /\ rows[i].event_id = EventIdOf(l)
        /\ \A i \in DOMAIN rows : rows[i].tx_hash \notin {m, EventIdOf(m)}
        /\ bf.pc = "done" /\ bf.ok /\ bf.fetched
        /\ InSeq(bf.all_txs, m) /\ bf.stop_at_lt < m /\ IsLamboTx(m)
        /\ UpstreamEvent(l).timestamp = UpstreamEvent(m).timestamp

DecimalString(a) == a >= 0
PromotedAs(out, op, ton_nano, lambo_nano) ==
    /\ out.outcome = "promote"
    /\ out.row.is_processed
    /\ out.row.operation_type = op
    /\ out.row.ton_amount = ton_nano \div Nano
    /\ out.row.lambo_amount = lambo_nano \div Nano

\* C13: a swap that passed the earlier checks is classified as buy with
\* ton_in / 10^9 and amount_out / 10^9 when ton_in > 0 and amount_out is a
\* non-empty decimal string; otherwise as sell with ton_out / 10^9 and
\* amount_in / 10^9 when ton_out > 0 and amount_in is a non-empty decimal string;
\* otherwise the candidate is discarded: for every combination of present, zero
\* and missing ton_in, ton_out, amount_in, amount_out.  (A swap without a user
\* address is discarded after the decision.)
C13_DirectionDecision ==
    probe.pc = "done" =>
        LET e == probe.ev IN
        IF e.ton_in > 0 /\ DecimalString(e.amount_out)
        THEN IF e.user = "" THEN probe.out.outcome = "delete"
             ELSE PromotedAs(probe.out, "buy", e.ton_in, e.amount_out)
        ELSE IF e.ton_out > 0 /\ DecimalString(e.amount_in)
        THEN IF e.user = "" THEN probe.out.outcome = "delete"
             ELSE PromotedAs(probe.out, "sell", e.ton_out, e.amount_in)
        ELSE probe.out.outcome = "delete"

\* C14: every classified row has ton_amount > 0, lambo_amount > 0,
\* ton_usd_price >= 0, operation_type buy or sell, and a non-empty user_address,
\* for every upstream swap payload and price.
C14_ClassifiedRowWellFormed ==
    (probe.pc = "done" /\ probe.out.outcome = "promote") =>
        /\ probe.out.row.ton_amount > 0
        /\ probe.out.row.lambo_amount > 0
        /\ probe.out.row.ton_usd_price >= 0
        /\ probe.out.row.operation_type \in {"buy", "sell"}
        /\ probe.out.row.user_address # ""

\* C15: in every reachable state every wallet has, in each unit,
\* total_volume = buy_volume + sell_volume.
C15_TotalIsBuyPlusSell ==
    \A a \in Addrs :
        /\ wallets[a].total_volume_lambo = wallets[a].buy_volume_lambo + wallets[a].sell_volume_lambo
        /\ wallets[a].total_volume_ton = wallets[a].buy_volume_ton + wallets[a].sell_volume_ton
        /\ wallets[a].total_volume_usd = wallets[a].buy_volume_usd + wallets[a].sell_volume_usd

\* a reconciled wallet whose totals update_wallet_volumes has raised since
C15_Witness ==
    \E a \in Addrs :
        /\ wallets[a].sync_status = "synced"
        /\ wallets[a].buy_volume_usd > 0 /\ wallets[a].sell_volume_usd > 0
        /\ \E h \in DOMAIN aggCalls : UpstreamEvent(h).user = a
        /\ storeErrors = 0

\* C16: a call of update_wallet_volumes for an address that has a wallet, which
\* returns normally with its index write accepted, adds the row's lambo, ton
\* and usd amounts to the three buy totals and leaves the three sell totals
\* alone when the row is a buy (and the other way round for a sell), changes
\* no other wallet, and leaves the address's index score equal to the new
\* total_volume_usd.
AggregatorReturned ==
    /\ tr.pc = "agg"
    /\ aggCalls' # aggCalls
    /\ storeErrors' = storeErrors
    /\ indexErrors' = indexErrors
    /\ tr.address \in Addrs
    /\ wallets[tr.address].exists

AggregatorEffect ==
    LET a == tr.address
        tx == rows[RowIndex(rows, Head(tr.batch))]
        usd_amount == tx.ton_amount * tx.ton_usd_price
        w == wallets[a]
        v == wallets'[a]
    IN /\ tx.operation_type = "buy" =>
            /\ v.buy_volume_lambo = w.buy_volume_lambo + tx.lambo_amount
            /\ v.buy_volume_ton = w.buy_volume_ton + tx.ton_amount
            /\ v.buy_volume_usd = w.buy_volume_usd + usd_amount
            /\ v.sell_volume_lambo = w.sell_volume_lambo
            /\ v.sell_volume_ton = w.sell_volume_ton
            /\ v.sell_volume_usd = w.sell_volume_usd
       /\ tx.operation_type = "sell" =>
            /\ v.sell_volume_lambo = w.sell_volume_lambo + tx.lambo_amount
            /\ v.sell_volume_ton = w.sell_volume_ton + tx.ton_amount
            /\ v.sell_volume_usd = w.sell_volume_usd + usd_amount
            /\ v.buy_volume_lambo = w.buy_volume_lambo
            /\ v.buy_volume_ton = w.buy_volume_ton
            /\ v.buy_volume_usd = w.buy_volume_usd
       /\ \A b \in Addrs \ {a} : wallets'[b] = wallets[b]
       /\ leaderboard'[a] = v.total_volume_usd

C16_UpdateWalletVolumesFrame == [][AggregatorReturned => AggregatorEffect]_vars

\* a wallet still waiting for its first reconciliation has received a buy and
\* a sell from the aggregator while a second wallet exists
C16_Witness ==
    /\ wallets["A1"].exists
    /\ wallets["A1"].sync_status = "pending"
    /\ wallets["A1"].buy_volume_ton > 0
    /\ wallets["A1"].sell_volume_ton > 0
    /\ leaderboard["A1"] = wallets["A1"].total_volume_usd
    /\ wallets["A2"].exists

\* C17: a call of update_wallet_volumes for an address without a wallet record
\* creates no wallet, changes no totals and writes nothing to the index; when
\* the address is registered later, its reconciliation sets totals that are
\* the sums over all its classified rows, the dropped rows among them.
AggregatorCalledUnknown ==
    /\ tr.pc = "agg"
    /\ aggCalls' # aggCalls
    /\ ~(tr.address \in Addrs /\ wallets[tr.address].exists)

DroppedRowsOf(a) ==
    {i \in DOMAIN rows : rows[i].tx_hash \in dropped /\ rows[i].user_address = a}

ReconcilerReturned == tr.pc = "sync_sum" /\ tr'.pc # "sync_sum" /\ wallets' # wallets

TotalsIncludeDropped ==
    LET a == Head(tr.wallets)
        v == wallets'[a]
    IN /\ DroppedRowsOf(a) \subseteq RowsOf(rows, a, "buy") \cup RowsOf(rows, a, "sell")
       /\ v.buy_volume_lambo = SumLambo(rows, a, "buy")
       /\ v.buy_volume_ton = SumTon(rows, a, "buy")
       /\ v.buy_volume_usd = SumUsd(rows, a, "buy")
       /\ v.sell_volume_lambo = SumLambo(rows, a, "sell")
       /\ v.sell_volume_ton = SumTon(rows, a, "sell")
       /\ v.sell_volume_usd = SumUsd(rows, a, "sell")

C17_UnknownAddressDropped ==
    /\ [][AggregatorCalledUnknown => (wallets' = wallets /\ leaderboard' = leaderboard)]_vars
    /\ [][ReconcilerReturned => TotalsIncludeDropped]_vars

\* the buy and the sell of A1 were both dropped before A1 registered, and the
\* reconciliation of A1 has since produced totals that contain both
C17_Witness ==
    /\ Cardinality(DroppedRowsOf("A1")) = 2
    /\ wallets["A1"].sync_status = "synced"
    /\ wallets["A1"].buy_volume_ton > 0
    /\ wallets["A1"].sell_volume_ton > 0
    /\ leaderboard["A1"] = wallets["A1"].total_volume_usd

\* C18: sync_new_wallets picks only active wallets in status pending; for each
\* it sets the six buy/sell totals to the sums over the classified rows of
\* the address split by operation_type, each total to buy + sell, sets
\* initial_sync_completed, and (when the index write is accepted) leaves the
\* index score of the address equal to total_volume_usd; sync_status only ever
\* moves pending -> syncing -> synced.
StatusStep(a) ==
    wallets'[a].sync_status # wallets[a].sync_status =>
        \/ ~wallets[a].exists /\ wallets'[a].sync_status = "pending"
        \/ wallets[a].sync_status = "pending" /\ wallets'[a].sync_status = "syncing"
        \/ wallets[a].sync_status = "syncing" /\ wallets'[a].sync_status = "synced"

ReconcilerPicked ==
    tr.pc = "sync_mark" /\ tr'.pc = "sync_sum" =>
        /\ wallets[Head(tr.wallets)].sync_status = "pending"
        /\ wallets[Head(tr.wallets)].is_active

ReconcilerEffect ==
    LET a == Head(tr.wallets)
        v == wallets'[a]
    IN /\ wallets[a].sync_status = "syncing"
       /\ v.sync_status = "synced"
       /\ v.initial_sync_completed
       /\ v.buy_volume_lambo = SumLambo(rows, a, "buy")
       /\ v.buy_volume_ton = SumTon(rows, a, "buy")
       /\ v.buy_volume_usd = SumUsd(rows, a, "buy")
       /\ v.sell_volume_lambo = SumLambo(rows, a, "sell")
       /\ v.sell_volume_ton = SumTon(rows, a, "sell")
       /\ v.sell_volume_usd = SumUsd(rows, a, "sell")
       /\ v.total_volume_lambo = v.buy_volume_lambo + v.sell_volume_lambo
       /\ v.total_volume_ton = v.buy_volume_ton + v.sell_volume_ton
       /\ v.total_volume_usd = v.buy_volume_usd + v.sell_volume_usd
       /\ indexErrors' = indexErrors => leaderboard'[a] = v.total_volume_usd
       /\ \A b \in Addrs \ {a} : wallets'[b] = wallets[b]

C18_SyncNewWallets ==
    /\ [][\A a \in Addrs : StatusStep(a)]_vars
    /\ [][ReconcilerPicked]_vars
    /\ [][ReconcilerReturned => ReconcilerEffect]_vars

\* A1 was reconciled from one classified buy and one classified sell, the buy
\* never having reached the aggregator's arithmetic
C18_Witness ==
    /\ wallets["A1"].sync_status = "synced"
    /\ wallets["A1"].initial_sync_completed
    /\ \E i \in RowsOf(rows, "A1", "buy") : rows[i].tx_hash \in dropped
    /\ RowsOf(rows, "A1", "sell") # {}
    /\ wallets["A1"].buy_volume_usd = SumUsd(rows, "A1", "buy")
    /\ wallets["A1"].sell_volume_usd = SumUsd(rows, "A1", "sell")
    /\ wallets["A1"].buy_volume_usd > 0
    /\ wallets["A1"].sell_volume_usd > 0
    /\ leaderboard["A1"] = wallets["A1"].buy_volume_usd + wallets["A1"].sell_volume_usd

\* C19: whenever no aggregator or reconciler call is in progress, every
\* member of the ordered index has a score equal to the total_volume_usd of
\* its wallet in the store.
IndexWritersIdle == tr.pc \notin {"sync_mark", "sync_sum", "agg"}

C19_IndexScoresCurrent ==
    IndexWritersIdle =>
        \A a \in Addrs : leaderboard[a] # NoScore => leaderboard[a] = wallets[a].total_volume_usd

\* C20: the ordered index never has more entries than there are distinct
\* addresses with at least one classified row.
IndexMembers == {a \in Addrs : leaderboard[a] # NoScore}
ClassifiedAddresses == {rows[i].user_address : i \in {j \in DOMAIN rows : rows[j].is_processed}}

C20_IndexWithinClassifiedAddresses ==
    Cardinality(IndexMembers) <= Cardinality(ClassifiedAddresses)

\* C21: rebuild_leaderboard_from_db rewrites the index atomically: a reader
\* served while a rebuild over a non-empty set of wallets runs sees neither an
\* empty nor a partially filled index, and a rebuild that fails leaves the
\* index as it was when the rebuild started.
ReaderSeesWholeIndex ==
    (rb.seen # NoSeen /\ RebuildSet # {}) =>
        /\ rb.seen > 0
        /\ rb.seen \in {ZCard(rb.before), Cardinality(RebuildSet)}

FailedRebuildRestores ==
    (rb.pc = "deleted" /\ rb'.pc = "done") => leaderboard' = rb.before

C21_RebuildAtomic == []ReaderSeesWholeIndex /\ [][FailedRebuildRestores]_vars

\* C22: a backfill run over an upstream history that holds tracked-asset
\* transactions above the prior checkpoint L persists them and ends with
\* last_processed_lt equal to the maximum lt the history holds above L (prior
\* checkpoint 95 and upstream lts 120, 110, 105, 100: four rows, checkpoint
\* 120).  Stated for completed runs beside which neither live tail nor webhook
\* wrote and which follow no interrupted run.
ObservedAbove(b) == {h \in 1..b.seen_chain : h > b.stop_at_lt}

QuietRunDone ==
    /\ bf.pc = "done" /\ bf.ok /\ bf.fetched
    /\ ~hist.tailWrote /\ ~hist.interrupted

IntermediateWrite == bf.pc = "ckpt" /\ bf'.pc = "batch"
FreshRun == restarts = 0 /\ ~hist.tailWrote /\ bf.stop_at_lt = 0

C23_IntermediateCheckpointIsMaxInserted ==
    [][(IntermediateWrite /\ FreshRun) =>
           /\ pool_lt' = MaxOf({rows[i].lt : i \in DOMAIN rows})
           /\ pool_lt' >= pool_lt]_vars

\* C24: at every point at which a backfill run has committed candidate rows,
\* the committed last_processed_lt is at least the maximum lt among them, so
\* a crash right after a row commit leaves no committed candidate of the run
\* above the checkpoint.  Stated for a first run over an empty store with no
\* other writer, where the rows of the store are the rows of the run.
C24_CheckpointCoversCommittedRows ==
    (bf.pc # "idle" /\ FreshRun /\ rows # <<>>) =>
        pool_lt >= MaxOf({rows[i].lt : i \in DOMAIN rows})

\* C25: a backfill run that follows a completed run over the same upstream
\* history inserts no candidate row and leaves last_processed_lt unchanged.
SecondRunStep ==
    /\ bf.pc # "idle"
    /\ bf' # bf
    /\ restarts' = restarts
    /\ hist.done_chain > 0
    /\ hist.done_chain = bf.seen_chain

C25_BackfillTwiceIsIdempotent ==
    [][SecondRunStep => (rows' = rows /\ pool_lt' = pool_lt)]_vars

\* the second run has run to completion over a history whose tracked swaps
\* the first run stored
C25_Witness ==
    /\ bf.pc = "done" /\ bf.ok /\ bf.fetched
    /\ hist.done_chain = bf.seen_chain
    /\ bf.all_txs # <<>>
    /\ HasHash(rows, 1) /\ HasHash(rows, 2)
    /\ pool_lt > 0

\* C26: a second process_transaction call on a row that the first call
\* promoted or deleted is a no-op: it deletes nothing and promotes nothing.
C26_SecondClassifyIsNoOp ==
    (probe.pc = "again" /\ probe.out.outcome \in {"promote", "delete"}) =>
        probe.again.outcome \notin {"promote", "delete"}

\* C27: a classified row is immutable: no step of the backfill, the live tail,
\* the classifier, the reconciler or the webhook changes a field of a row with
\* is_processed = true or deletes it.
C27_ClassifiedRowImmutable ==
    [][\A i \in DOMAIN rows : rows[i].is_processed =>
          \E j \in DOMAIN rows' : /\ rows'[j].tx_hash = rows[i].tx_hash
                                  /\ rows'[j] = rows[i]]_vars

\* a classified row is in the store while the classifier has promoted a later
\* row, the live tail and the webhook have written and the reconciler has run
C27_Witness ==
    /\ \E i, j \in DOMAIN rows : i < j /\ rows[i].is_processed /\ rows[j].is_processed
    /\ \E i \in DOMAIN rows : rows[i].tx_hash > EventIdBase
    /\ whCount > 0
    /\ \E a \in Addrs : wallets[a].initial_sync_completed
    /\ bf.pc = "done"

\* C28: when the event has no swap action, or its swap does not reference the
\* tracked asset, or it has no timestamp, or the user address is missing,
\* process_transaction deletes the candidate row; the delete outcome never
\* reaches the aggregator, so no totals and no index score change.
DiscardCase(ev) ==
    /\ ev.status = 200
    /\ \/ ~ev.has_swap
       \/ ev.jetton # "LAMBO"
       \/ ev.timestamp = 0
       \/ ev.user = ""

C28_DiscardDeletesRow ==
    (probe.pc = "done" /\ DiscardCase(probe.ev)) => probe.out.outcome = "delete"

\* C29: after stop() is called at any point after start() has begun, the main
\* loop ends at its next test: no further iteration is begun and start()
\* eventually returns.
C29_StopEndsMainLoop ==
    /\ [][(life.stop_called /\ tr.pc = "loop") => tr'.pc \in {"loop", "returned"}]_vars
    /\ life.stop_called ~> (tr.pc = "returned")

\* C30: the monitor is connected only after an answer 200, goes back to
\* connecting after a read error or another status, and after stop() it
\* reaches stopped with no open stream and hands no further event line to the
\* insert of save_transaction.
C30_MonitorLifecycle ==
    /\ [](mon.pc = "connected" => mon.status = "200")
    /\ [][(mon.pc = "connecting" /\ mon'.pc # "connecting") =>
            (mon'.pc = "connected") = (mon'.status = "200")]_vars
    /\ [][(mon.stop_called /\ sse.pc = "idle") => sse'.pc = "idle"]_vars
    /\ mon.stop_called ~> (mon.pc = "stopped")

\* C31: in one fetch_pool_transactions run the first request carries no
\* before_lt, no before_lt is requested twice, and the working list is in
\* strictly descending lt order, so no transaction is in it twice.
RequestedOnce ==
    \A i, j \in DOMAIN fp.requests :
        /\ fp.requests[i].times = 1
        /\ (fp.requests[i].before_lt = fp.requests[j].before_lt) => (i = j)
NewestFirst ==
    \A i \in DOMAIN fp.pages : i > 1 => fp.pages[i].top < LastLt(fp.pages[i - 1])
C31_PagesRequestedOnceNewestFirst ==
    (fp.requests # <<>>) =>
        /\ fp.requests[1].before_lt = NoLt
        /\ RequestedOnce
        /\ NewestFirst

\* C32: in resume mode a page is requested only while every page fetched so
\* far lies above last_processed_lt, and the pagination ends.
StopsAtCheckpoint ==
    (fp.after_lt # NoLt) =>
        \A i \in DOMAIN fp.requests : i > 1 => fp.requests[i].before_lt > fp.after_lt
FetchEnds == (fp.pc = "first") ~> (fp.pc \in {"returned", "synced"})
C32_ResumeStopsAtCheckpoint == []StopsAtCheckpoint /\ FetchEnds

\* C33: in first-run mode no candidate with a utime below start_timestamp is
\* inserted, whichever way the pagination ended.
C33_NoCandidateBelowEpoch ==
    (fp.pc = "synced" /\ fp.after_lt = NoLt) =>
        \A i \in DOMAIN fp.inserted :
            \A l \in LastLt(fp.inserted[i])..fp.inserted[i].top :
                IsLamboTx(l) => l >= fp.start_timestamp

\* C34: a failed page request is not taken for the end of the history, and
\* after a first run with a failed request every tracked-asset swap between
\* the epoch and the checkpoint the run wrote has been inserted.
InsertedLt(l) ==
    \E i \in DOMAIN fp.inserted : LastLt(fp.inserted[i]) <= l /\ l <= fp.inserted[i].top
HistoryEnded == PageOf(fp.before_lt, fp.n).len = 0
C34_FailedPageLosesNothing ==
    (fp.pc = "synced" /\ fp.failed /\ fp.after_lt = NoLt) =>
        /\ (fp.how = "empty batch") => HistoryEnded
        /\ \A l \in fp.start_timestamp..fp.checkpoint : IsLamboTx(l) => InsertedLt(l)

\* C35: each stream source persists its candidate rows in strictly ascending
\* lt order: a row the backfill appends has a higher lt than every row it
\* appended before, and so has a row the live tail appends.
ByHash(r) == r.tx_hash < EventIdBase
BackfillAppends == bf' # bf /\ Len(rows') > Len(rows) /\ whCount = 0
LiveTailAppends == sse.pc = "checked" /\ Len(rows') > Len(rows)
AscendingPerSource ==
    /\ BackfillAppends =>
          \A j \in (Len(rows) + 1)..Len(rows') :
              \A i \in 1..(j - 1) : ByHash(rows'[i]) => rows'[i].lt < rows'[j].lt
    /\ LiveTailAppends =>
          \A i \in DOMAIN rows : ~ByHash(rows[i]) => rows[i].lt < sse.lt
C35_AscendingLtPerSource == [][AscendingPerSource]_vars

\* C36: after a lost write to the ordered index the index eventually again
\* holds the address with a score equal to its fiat total in the store.
IndexBehind(a) ==
    /\ indexErrors > 0
    /\ IndexWritersIdle
    /\ wallets[a].exists
    /\ leaderboard[a] # wallets[a].total_volume_usd
C36_LostIndexWriteRepaired ==
    \A a \in Addrs : IndexBehind(a) ~> (leaderboard[a] = wallets[a].total_volume_usd)

\* C37: a tracked-asset swap whose check failed for the moment is a candidate
\* row once a later backfill run has completed.
LaterRunCompleted ==
    /\ hist.check_failed # {}
    /\ hist.check_run < restarts
    /\ bf.pc = "done" /\ bf.ok /\ bf.fetched
C37_FailedCheckLosesNothing ==
    LaterRunCompleted => \A h \in hist.check_failed : HasHash(rows, h)

\* C38: every wallet created pending eventually reaches synced, no wallet
\* stays in syncing for ever, and the only status transitions are
\* pending -> syncing -> synced.
PendingReachesSynced ==
    \A a \in Addrs :
        (wallets[a].exists /\ wallets[a].is_active /\ wallets[a].sync_status = "pending")
            ~> (wallets[a].sync_status = "synced")
SyncingEnds ==
    \A a \in Addrs :
        (wallets[a].exists /\ wallets[a].sync_status = "syncing")
            ~> (wallets[a].sync_status = "synced")
C38_PendingWalletGetsSynced ==
    PendingReachesSynced /\ SyncingEnds /\ [][\A a \in Addrs : StatusStep(a)]_vars

\* C39: a candidate whose event is available is eventually promoted or
\* discarded, however many candidates with earlier timestamps fail for ever.
LoopEntered == tr.pc # "start"
Classified(h) ==
    \A i \in DOMAIN rows : rows[i].tx_hash = h => rows[i].is_processed
C39_FailingCandidatesDoNotBlock ==
    LoopEntered ~> (\A h \in 1..MidChain : h \notin hist.gone => Classified(h))

\* C40: the ordered index holds no address whose wallet is inactive or
\* unlinked, and every active linked wallet with a completed initial sync is
\* a member of the index.
Linked(a) == wallets[a].exists /\ wallets[a].is_active /\ wallets[a].user_id # NoUser
C40_IndexMembersAreLinkedWallets ==
    \A a \in Addrs :
        /\ IndexWritersIdle /\ leaderboard[a] # NoScore => Linked(a)
        /\ IndexWritersIdle /\ Linked(a) /\ wallets[a].initial_sync_completed
               => leaderboard[a] # NoScore

====
